---- MODULE Spec2Model ----
(***************************************************************************)
(* Model of the position-mapping and modification-compatibility engine of  *)
(* ornament-core: the Sprinzl mapper, the modification database (built-in   *)
(* and MODOMICS construction paths) and the compatibility analyzer.         *)
(*                                                                         *)
(* Conventions.  A Rust String that the code inspects character by          *)
(* character (sequence, structure, Sprinzl label, short name) is a          *)
(* sequence of one-character strings.  Option<T> is a sequence of length 0  *)
(* (None) or 1 (Some).  A HashMap is a function on its key set.  A zero-    *)
(* based Rust index i addresses element i + 1 of a sequence.                *)
(***************************************************************************)
EXTENDS Integers, Sequences, FiniteSets, TLC

VARIABLES pc, mapper, alignment, mapping, query, catalog, db, hit, order, result,
          hits, orders, batch

vars == <<pc, mapper, alignment, mapping, query, catalog, db, hit, order, result,
          hits, orders, batch>>

None == <<>>
Some(x) == <<x>>
IsSome(o) == Len(o) = 1
Unwrap(o) == o[1]

\* HashMap::insert
Insert(m, k, v) == (k :> v) @@ m
EmptyMap == [x \in {} |-> 0]

Min(a, b) == IF a < b THEN a ELSE b

\* e, with x evaluated first: a loop's state is computed at every iteration,
\* not carried as a chain of unevaluated iterations.
Strict(x, e) == IF x = x THEN e ELSE e

\* Loops over a whole string or table are written over an index range
\* lo..hi-1 that is split in two, first half then second half on the state
\* the first half leaves: the iterations run in index order, one after the
\* other, and the nesting of the definition stays logarithmic.
Mid(lo, hi) == (lo + hi) \div 2

(***************************************************************************)
(* Sprinzl mapper (modification/sprinzl.rs)                                *)
(***************************************************************************)

\* The table with the label e1 mistyped as a second e11.
positions_dup ==
  <<
     <<"1">>, <<"2">>, <<"3">>, <<"4">>, <<"5">>, <<"6">>, <<"7">>,
     <<"8">>, <<"9">>, <<"1","0">>, <<"1","1">>, <<"1","2">>, <<"1","3">>, <<"1","4">>, <<"1","5">>, <<"1","6">>,
     <<"1","7">>, <<"1","7","a">>, <<"1","8">>, <<"1","9">>, <<"2","0">>, <<"2","0","a">>, <<"2","0","b">>,
     <<"2","1">>, <<"2","2">>, <<"2","3">>, <<"2","4">>, <<"2","5">>,
     <<"2","6">>, <<"2","7">>, <<"2","8">>, <<"2","9">>, <<"3","0">>, <<"3","1">>, <<"3","2">>, <<"3","3">>, <<"3","4">>, <<"3","5">>, <<"3","6">>, <<"3","7">>, <<"3","8">>,
     <<"3","9">>, <<"4","0">>, <<"4","1">>, <<"4","2">>, <<"4","3">>, <<"4","4">>,
     <<"4","5">>, <<"e","1","1">>, <<"e","1","2">>, <<"e","1","3">>, <<"e","1","4">>, <<"e","1","5">>, <<"e","1","6">>, <<"e","1","7">>, <<"e","1","1">>, <<"e","2">>, <<"e","3">>, <<"e","4">>, <<"e","5">>,
     <<"e","2","1">>, <<"e","2","2">>, <<"e","2","3">>, <<"e","2","4">>, <<"e","2","5">>, <<"e","2","6">>, <<"e","2","7">>, <<"4","6">>, <<"4","7">>,
     <<"4","8">>, <<"4","9">>, <<"5","0">>, <<"5","1">>, <<"5","2">>, <<"5","3">>, <<"5","4">>, <<"5","5">>, <<"5","6">>, <<"5","7">>, <<"5","8">>, <<"5","9">>, <<"6","0">>, <<"6","1">>,
     <<"6","2">>, <<"6","3">>, <<"6","4">>, <<"6","5">>,
     <<"6","6">>, <<"6","7">>, <<"6","8">>, <<"6","9">>, <<"7","0">>, <<"7","1">>, <<"7","2">>,
     <<"7","3">>, <<"7","4">>, <<"7","5">>, <<"7","6">>
  >>

\* The table with the label 20b left out.
positions_short ==
  <<
     <<"1">>, <<"2">>, <<"3">>, <<"4">>, <<"5">>, <<"6">>, <<"7">>,
     <<"8">>, <<"9">>, <<"1","0">>, <<"1","1">>, <<"1","2">>, <<"1","3">>, <<"1","4">>, <<"1","5">>, <<"1","6">>,
     <<"1","7">>, <<"1","7","a">>, <<"1","8">>, <<"1","9">>, <<"2","0">>, <<"2","0","a">>,
     <<"2","1">>, <<"2","2">>, <<"2","3">>, <<"2","4">>, <<"2","5">>,
     <<"2","6">>, <<"2","7">>, <<"2","8">>, <<"2","9">>, <<"3","0">>, <<"3","1">>, <<"3","2">>, <<"3","3">>, <<"3","4">>, <<"3","5">>, <<"3","6">>, <<"3","7">>, <<"3","8">>,
     <<"3","9">>, <<"4","0">>, <<"4","1">>, <<"4","2">>, <<"4","3">>, <<"4","4">>,
     <<"4","5">>, <<"e","1","1">>, <<"e","1","2">>, <<"e","1","3">>, <<"e","1","4">>, <<"e","1","5">>, <<"e","1","6">>, <<"e","1","7">>, <<"e","1">>, <<"e","2">>, <<"e","3">>, <<"e","4">>, <<"e","5">>,
     <<"e","2","1">>, <<"e","2","2">>, <<"e","2","3">>, <<"e","2","4">>, <<"e","2","5">>, <<"e","2","6">>, <<"e","2","7">>, <<"4","6">>, <<"4","7">>,
     <<"4","8">>, <<"4","9">>, <<"5","0">>, <<"5","1">>, <<"5","2">>, <<"5","3">>, <<"5","4">>, <<"5","5">>, <<"5","6">>, <<"5","7">>, <<"5","8">>, <<"5","9">>, <<"6","0">>, <<"6","1">>,
     <<"6","2">>, <<"6","3">>, <<"6","4">>, <<"6","5">>,
     <<"6","6">>, <<"6","7">>, <<"6","8">>, <<"6","9">>, <<"7","0">>, <<"7","1">>, <<"7","2">>,
     <<"7","3">>, <<"7","4">>, <<"7","5">>, <<"7","6">>
  >>

\* The hard-coded list of canonical labels, in column order.
positions ==
  <<
     <<"1">>, <<"2">>, <<"3">>, <<"4">>, <<"5">>, <<"6">>, <<"7">>,
     <<"8">>, <<"9">>, <<"1","0">>, <<"1","1">>, <<"1","2">>, <<"1","3">>, <<"1","4">>, <<"1","5">>, <<"1","6">>,
     <<"1","7">>, <<"1","7","a">>, <<"1","8">>, <<"1","9">>, <<"2","0">>, <<"2","0","a">>, <<"2","0","b">>,
     <<"2","1">>, <<"2","2">>, <<"2","3">>, <<"2","4">>, <<"2","5">>,
     <<"2","6">>, <<"2","7">>, <<"2","8">>, <<"2","9">>, <<"3","0">>, <<"3","1">>, <<"3","2">>, <<"3","3">>, <<"3","4">>, <<"3","5">>, <<"3","6">>, <<"3","7">>, <<"3","8">>,
     <<"3","9">>, <<"4","0">>, <<"4","1">>, <<"4","2">>, <<"4","3">>, <<"4","4">>,
     <<"4","5">>, <<"e","1","1">>, <<"e","1","2">>, <<"e","1","3">>, <<"e","1","4">>, <<"e","1","5">>, <<"e","1","6">>, <<"e","1","7">>, <<"e","1">>, <<"e","2">>, <<"e","3">>, <<"e","4">>, <<"e","5">>,
     <<"e","2","1">>, <<"e","2","2">>, <<"e","2","3">>, <<"e","2","4">>, <<"e","2","5">>, <<"e","2","6">>, <<"e","2","7">>, <<"4","6">>, <<"4","7">>,
     <<"4","8">>, <<"4","9">>, <<"5","0">>, <<"5","1">>, <<"5","2">>, <<"5","3">>, <<"5","4">>, <<"5","5">>, <<"5","6">>, <<"5","7">>, <<"5","8">>, <<"5","9">>, <<"6","0">>, <<"6","1">>,
     <<"6","2">>, <<"6","3">>, <<"6","4">>, <<"6","5">>,
     <<"6","6">>, <<"6","7">>, <<"6","8">>, <<"6","9">>, <<"7","0">>, <<"7","1">>, <<"7","2">>,
     <<"7","3">>, <<"7","4">>, <<"7","5">>, <<"7","6">>
  >>

\* One iteration of the loop over positions.iter().enumerate().
new_standard_step(idx, m) ==
  LET sprinzl == positions[idx + 1]
  IN [cm_to_sprinzl |-> Insert(m.cm_to_sprinzl, idx, sprinzl),
      sprinzl_to_cm |-> Insert(m.sprinzl_to_cm, sprinzl, idx)]

RECURSIVE new_standard_loop(_, _, _)
new_standard_loop(lo, hi, m) ==
  IF hi <= lo THEN m
  ELSE IF hi = lo + 1 THEN new_standard_step(lo, m)
  ELSE LET first == new_standard_loop(lo, Mid(lo, hi), m)
       IN Strict(first, new_standard_loop(Mid(lo, hi), hi, first))

new_standard ==
  new_standard_loop(0, Len(positions),
                    [cm_to_sprinzl |-> EmptyMap, sprinzl_to_cm |-> EmptyMap])

get_sprinzl(m, cm_idx) ==
  IF cm_idx \in DOMAIN m.cm_to_sprinzl THEN Some(m.cm_to_sprinzl[cm_idx]) ELSE None

get_cm_index(m, sprinzl) ==
  IF sprinzl \in DOMAIN m.sprinzl_to_cm THEN Some(m.sprinzl_to_cm[sprinzl]) ELSE None

\* The classification with the D-loop and T-loop lists left out.
is_critical_position_anticodon_only(pos) ==
  pos \in {<<"3","4">>, <<"3","5">>, <<"3","6">>, <<"3","7">>}

\* SprinzlMapper::is_critical_position
is_critical_position(pos) ==
  IF pos \in {<<"3","4">>, <<"3","5">>, <<"3","6">>, <<"3","7">>} THEN TRUE
  ELSE IF pos \in {<<"1","6">>, <<"1","7">>, <<"2","0">>, <<"2","0","a">>, <<"2","0","b">>} THEN TRUE
  ELSE IF pos \in {<<"5","4">>, <<"5","5">>, <<"5","8">>} THEN TRUE
  ELSE FALSE

\* Only '-' counted as a gap.
IsGapDashOnly(c) == c = "-"

\* c != '-' && c != '.' is the residue test; its negation is the gap test.
IsGap(c) == c = "-" \/ c = "."

\* The loop body that advances seq_pos on every column.
map_alignment_step_gapcount(m, c, cm_idx, acc) ==
  [result |-> IF ~IsGap(c) /\ cm_idx \in DOMAIN m.cm_to_sprinzl
              THEN Insert(acc.result, m.cm_to_sprinzl[cm_idx], acc.seq_pos)
              ELSE acc.result,
   seq_pos |-> acc.seq_pos + 1]

\* One iteration of the loop over alignment.chars().enumerate().
map_alignment_step(m, c, cm_idx, acc) ==
  IF ~IsGap(c)
  THEN [result |-> IF cm_idx \in DOMAIN m.cm_to_sprinzl
                   THEN Insert(acc.result, m.cm_to_sprinzl[cm_idx], acc.seq_pos)
                   ELSE acc.result,
        seq_pos |-> acc.seq_pos + 1]
  ELSE acc

RECURSIVE map_alignment_loop(_, _, _, _, _)
map_alignment_loop(m, aln, lo, hi, acc) ==
  IF hi <= lo THEN acc
  ELSE IF hi = lo + 1 THEN map_alignment_step(m, aln[lo + 1], lo, acc)
  ELSE LET first == map_alignment_loop(m, aln, lo, Mid(lo, hi), acc)
       IN Strict(first, map_alignment_loop(m, aln, Mid(lo, hi), hi, first))

map_alignment(m, aln) ==
  map_alignment_loop(m, aln, 0, Len(aln), [result |-> EmptyMap, seq_pos |-> 0]).result

(***************************************************************************)
(* Core types (modification/types.rs)                                      *)
(***************************************************************************)

LowerCase == <<"a","b","c","d","e","f","g","h","i","j","k","l","m",
               "n","o","p","q","r","s","t","u","v","w","x","y","z">>
UpperCase == <<"A","B","C","D","E","F","G","H","I","J","K","L","M",
               "N","O","P","Q","R","S","T","U","V","W","X","Y","Z">>

to_ascii_uppercase(c) ==
  IF \E i \in 1..Len(LowerCase) : LowerCase[i] = c
  THEN UpperCase[CHOOSE i \in 1..Len(LowerCase) : LowerCase[i] = c]
  ELSE c

\* The conversion without the change of case.
from_dna_char_case_sensitive(c) ==
  CASE c = "A" -> Some("A")
    [] c = "C" -> Some("C")
    [] c = "G" -> Some("G")
    [] c = "T" \/ c = "U" -> Some("U")
    [] OTHER -> None

from_dna_char(c) ==
  LET u == to_ascii_uppercase(c)
  IN CASE u = "A" -> Some("A")
       [] u = "C" -> Some("C")
       [] u = "G" -> Some("G")
       [] u = "T" \/ u = "U" -> Some("U")
       [] OTHER -> None

SingleChar(c) == [kind |-> "SingleChar", v |-> <<c>>]
Unicode(c) == [kind |-> "Unicode", v |-> <<c>>]
ShortName(s) == [kind |-> "ShortName", v |-> s]

Contains(seq, x) == \E i \in 1..Len(seq) : seq[i] = x

\* Modification::is_compatible
is_compatible(m, observed) == ~Contains(m.incompatible_bases, observed)

Digits == <<"0","1","2","3","4","5","6","7","8","9">>

\* u8::to_string
RECURSIVE to_string(_)
to_string(n) ==
  IF n < 10 THEN <<Digits[n + 1]>>
  ELSE to_string(n \div 10) \o <<Digits[(n % 10) + 1]>>

\* SprinzlPosition::from_num
from_num(n) == to_string(n)

\* char::is_ascii_digit
is_ascii_digit(c) == Contains(Digits, c)

\* char::is_ascii_alphabetic
is_ascii_alphabetic(c) == Contains(LowerCase, c) \/ Contains(UpperCase, c)

\* chars().take_while(|c| c.is_ascii_digit()).collect::<String>(), from
\* character i.
RECURSIVE take_while_digit(_, _)
take_while_digit(s, i) ==
  IF i > Len(s) \/ ~is_ascii_digit(s[i]) THEN <<>>
  ELSE <<s[i]>> \o take_while_digit(s, i + 1)

\* All the digits of s from character i on, wherever they stand.
RECURSIVE filter_digit(_, _)
filter_digit(s, i) ==
  IF i > Len(s) THEN <<>>
  ELSE (IF is_ascii_digit(s[i]) THEN <<s[i]>> ELSE <<>>) \o filter_digit(s, i + 1)

\* str::parse::<u8>() of a string of digits, from digit i with the value acc
\* read so far: no value for the empty string or a number above 255.
RECURSIVE parse_u8_from(_, _, _)
parse_u8_from(s, i, acc) ==
  IF i > Len(s) THEN Some(acc)
  ELSE LET v == acc * 10 + ((CHOOSE d \in 1..Len(Digits) : Digits[d] = s[i]) - 1)
       IN IF v > 255 THEN None ELSE parse_u8_from(s, i + 1, v)

parse_u8(s) == IF Len(s) = 0 THEN None ELSE parse_u8_from(s, 1, 0)

\* The number read from all the digits of the label, wherever they stand.
base_number_all_digits(label) == parse_u8(filter_digit(label, 1))

\* SprinzlPosition::base_number
base_number(label) == parse_u8(take_while_digit(label, 1))

\* SprinzlPosition::is_insertion
is_insertion(label) == \E i \in 1..Len(label) : is_ascii_alphabetic(label[i])

ALA == "Ala"
ARG == "Arg"
ASN == "Asn"
ASP == "Asp"
CYS == "Cys"
GLN == "Gln"
GLU == "Glu"
GLY == "Gly"
HIS == "His"
ILE == "Ile"
LEU == "Leu"
LYS == "Lys"
MET == "Met"
PHE == "Phe"
PRO == "Pro"
SER == "Ser"
THR == "Thr"
TRP == "Trp"
TYR == "Tyr"
VAL == "Val"

(***************************************************************************)
(* Modification database (modification/database.rs)                        *)
(***************************************************************************)

EmptyDb ==
  [built |-> TRUE, modifications |-> EmptyMap,
   position_expectations |-> EmptyMap, aliases |-> EmptyMap]

add_modification(d, m) ==
  [d EXCEPT !.modifications = Insert(d.modifications, m.short_name, m)]

\* The modifications added by load_default_modifications, in call order.
DefaultModifications ==
  <<
     [name |-> "pseudouridine", short_name |-> <<"P","s","i">>,
      code |-> Unicode("PSI"), alt_codes |-> <<SingleChar("Y")>>,
      parent_base |-> "U", genomic_expectation |-> "U",
      incompatible_bases |-> <<"A","G","C">>,
      chebi_id |-> Some(17802), modomics_unicode |-> Some("PSI")],
     [name |-> "dihydrouridine", short_name |-> <<"D">>,
      code |-> SingleChar("D"), alt_codes |-> <<>>,
      parent_base |-> "U", genomic_expectation |-> "U",
      incompatible_bases |-> <<"A","G","C">>,
      chebi_id |-> Some(15802), modomics_unicode |-> Some("D")],
     [name |-> "5-methyluridine", short_name |-> <<"m","5","U">>,
      code |-> ShortName(<<"m","5","U">>), alt_codes |-> <<SingleChar("T")>>,
      parent_base |-> "U", genomic_expectation |-> "U",
      incompatible_bases |-> <<"A","G","C">>,
      chebi_id |-> Some(16695), modomics_unicode |-> Some("T")],
     [name |-> "1-methyladenosine", short_name |-> <<"m","1","A">>,
      code |-> ShortName(<<"m","1","A">>), alt_codes |-> <<>>,
      parent_base |-> "A", genomic_expectation |-> "A",
      incompatible_bases |-> <<"G","C","U">>,
      chebi_id |-> Some(21837), modomics_unicode |-> Some("DQUOTE")],
     [name |-> "1-methylguanosine", short_name |-> <<"m","1","G">>,
      code |-> ShortName(<<"m","1","G">>), alt_codes |-> <<>>,
      parent_base |-> "G", genomic_expectation |-> "G",
      incompatible_bases |-> <<"A","C","U">>,
      chebi_id |-> Some(21836), modomics_unicode |-> Some("K")],
     [name |-> "N6-threonylcarbamoyladenosine", short_name |-> <<"t","6","A">>,
      code |-> ShortName(<<"t","6","A">>), alt_codes |-> <<>>,
      parent_base |-> "A", genomic_expectation |-> "A",
      incompatible_bases |-> <<"G","C","U">>,
      chebi_id |-> Some(20817), modomics_unicode |-> Some("6")],
     [name |-> "N6-isopentenyladenosine", short_name |-> <<"i","6","A">>,
      code |-> ShortName(<<"i","6","A">>), alt_codes |-> <<>>,
      parent_base |-> "A", genomic_expectation |-> "A",
      incompatible_bases |-> <<"G","C","U">>,
      chebi_id |-> Some(17588), modomics_unicode |-> Some("+")],
     [name |-> "inosine", short_name |-> <<"I">>,
      code |-> SingleChar("I"), alt_codes |-> <<>>,
      parent_base |-> "A", genomic_expectation |-> "A",
      incompatible_bases |-> <<"G","C","U">>,
      chebi_id |-> Some(17596), modomics_unicode |-> Some("I")],
     [name |-> "queuosine", short_name |-> <<"Q">>,
      code |-> SingleChar("Q"), alt_codes |-> <<>>,
      parent_base |-> "G", genomic_expectation |-> "G",
      incompatible_bases |-> <<"A","C","U">>,
      chebi_id |-> Some(17399), modomics_unicode |-> Some("Q")],
     [name |-> "2'-O-methylcytidine", short_name |-> <<"C","m">>,
      code |-> ShortName(<<"C","m">>), alt_codes |-> <<>>,
      parent_base |-> "C", genomic_expectation |-> "C",
      incompatible_bases |-> <<"A","G","U">>,
      chebi_id |-> Some(19228), modomics_unicode |-> Some("B")],
     [name |-> "5-methylcytidine", short_name |-> <<"m","5","C">>,
      code |-> ShortName(<<"m","5","C">>), alt_codes |-> <<>>,
      parent_base |-> "C", genomic_expectation |-> "C",
      incompatible_bases |-> <<"A","G","U">>,
      chebi_id |-> Some(27480), modomics_unicode |-> Some("?")],
     [name |-> "7-methylguanosine", short_name |-> <<"m","7","G">>,
      code |-> ShortName(<<"m","7","G">>), alt_codes |-> <<>>,
      parent_base |-> "G", genomic_expectation |-> "G",
      incompatible_bases |-> <<"A","C","U">>,
      chebi_id |-> Some(2274), modomics_unicode |-> Some("7")]
  >>

RECURSIVE load_default_modifications_from(_, _)
load_default_modifications_from(d, i) ==
  IF i > Len(DefaultModifications) THEN d
  ELSE load_default_modifications_from(add_modification(d, DefaultModifications[i]), i + 1)

load_default_modifications(d) == load_default_modifications_from(d, 1)

setup_aliases(d) ==
  [d EXCEPT !.aliases =
     Insert(Insert(Insert(Insert(d.aliases,
       <<"P","s","i">>, <<"Y">>),
       <<"p","s","i">>, <<"Y">>),
       <<"r","T">>, <<"m","5","U">>),
       <<"T">>, <<"m","5","U">>)]

MapGet(m, k) == IF k \in DOMAIN m THEN Some(m[k]) ELSE None

\* A lookup that consults the alias table only.
get_modification_alias_only(d, short_name) ==
  IF short_name \in DOMAIN d.aliases
  THEN MapGet(d.modifications, d.aliases[short_name])
  ELSE None

\* A lookup that consults the stored keys only.
get_modification_direct_only(d, short_name) == MapGet(d.modifications, short_name)

get_modification(d, short_name) ==
  IF short_name \in DOMAIN d.modifications
  THEN Some(d.modifications[short_name])
  ELSE IF short_name \in DOMAIN d.aliases
       THEN MapGet(d.modifications, d.aliases[short_name])
       ELSE None

get_mod_cloned(d, name) ==
  IF name \in DOMAIN d.modifications
  THEN Some(d.modifications[name])
  ELSE IF name \in DOMAIN d.aliases
       THEN MapGet(d.modifications, d.aliases[name])
       ELSE None

get_expectations(d, position) ==
  IF position \in DOMAIN d.position_expectations
  THEN d.position_expectations[position]
  ELSE <<>>

\* A filter that keeps the expectations listing the isotype only.
RECURSIVE filter_isotype_listed_only(_, _, _)
filter_isotype_listed_only(exps, isotype, i) ==
  IF i > Len(exps) THEN <<>>
  ELSE IF Contains(exps[i].isotypes, isotype)
       THEN <<exps[i]>> \o filter_isotype_listed_only(exps, isotype, i + 1)
       ELSE filter_isotype_listed_only(exps, isotype, i + 1)

RECURSIVE filter_isotype(_, _, _)
filter_isotype(exps, isotype, i) ==
  IF i > Len(exps) THEN <<>>
  ELSE IF Len(exps[i].isotypes) = 0 \/ Contains(exps[i].isotypes, isotype)
       THEN <<exps[i]>> \o filter_isotype(exps, isotype, i + 1)
       ELSE filter_isotype(exps, isotype, i + 1)

get_expectations_for_isotype(d, position, isotype) ==
  filter_isotype(get_expectations(d, position), isotype, 1)

\* An expectation stored with the conservation level Rare.
add_position_expectation_as_rare(d, expectation) ==
  LET key == expectation.position
      old == IF key \in DOMAIN d.position_expectations
             THEN d.position_expectations[key] ELSE <<>>
  IN [d EXCEPT !.position_expectations =
        Insert(d.position_expectations, key,
               Append(old, [expectation EXCEPT !.conservation = "Rare"]))]

add_position_expectation(d, expectation) ==
  LET key == expectation.position
      old == IF key \in DOMAIN d.position_expectations
             THEN d.position_expectations[key] ELSE <<>>
  IN [d EXCEPT !.position_expectations =
        Insert(d.position_expectations, key, Append(old, expectation))]

\* The blocks of load_eukaryotic_expectations, in source order: the names
\* tried with get_mod_cloned (or_else chain), the positions given to
\* from_num, and the fields of the expectation pushed for each position.
EukaryoticExpectations ==
  <<
     [names |-> <<<<"D">>>>, nums |-> <<16, 17, 20>>,
      conservation |-> "Universal", functional_role |-> "StructuralStability",
      isotypes |-> <<>>],
     [names |-> <<<<"C","m">>>>, nums |-> <<32>>,
      conservation |-> "IsotypeSpecific", functional_role |-> "AnticodonFunction",
      isotypes |-> <<PHE, TRP>>],
     [names |-> <<<<"I">>>>, nums |-> <<34>>,
      conservation |-> "IsotypeSpecific", functional_role |-> "AnticodonFunction",
      isotypes |-> <<ALA, ARG, ILE, LEU, PRO, SER, THR, VAL>>],
     [names |-> <<<<"Q">>>>, nums |-> <<34>>,
      conservation |-> "IsotypeSpecific", functional_role |-> "AnticodonFunction",
      isotypes |-> <<ASN, ASP, HIS, TYR>>],
     [names |-> <<<<"t","6","A">>>>, nums |-> <<37>>,
      conservation |-> "DomainSpecific", functional_role |-> "AnticodonFunction",
      isotypes |-> <<ILE, LYS, ASN, SER, THR>>],
     [names |-> <<<<"i","6","A">>>>, nums |-> <<37>>,
      conservation |-> "IsotypeSpecific", functional_role |-> "AnticodonFunction",
      isotypes |-> <<CYS, SER, TRP>>],
     [names |-> <<<<"m","1","G">>>>, nums |-> <<37>>,
      conservation |-> "IsotypeSpecific", functional_role |-> "AnticodonFunction",
      isotypes |-> <<ALA, ARG, LEU, PRO>>],
     [names |-> <<<<"m","7","G">>>>, nums |-> <<46>>,
      conservation |-> "Universal", functional_role |-> "StructuralStability",
      isotypes |-> <<>>],
     [names |-> <<<<"m","5","C">>>>, nums |-> <<48>>,
      conservation |-> "DomainSpecific", functional_role |-> "StructuralStability",
      isotypes |-> <<>>],
     [names |-> <<<<"m","5","U">>>>, nums |-> <<54>>,
      conservation |-> "Universal", functional_role |-> "StructuralStability",
      isotypes |-> <<>>],
     [names |-> <<<<"P","s","i">>, <<"Y">>>>, nums |-> <<55>>,
      conservation |-> "Universal", functional_role |-> "StructuralStability",
      isotypes |-> <<>>],
     [names |-> <<<<"m","1","A">>>>, nums |-> <<58>>,
      conservation |-> "Universal", functional_role |-> "StructuralStability",
      isotypes |-> <<>>]
  >>

\* The first name of the chain that get_mod_cloned resolves.
RECURSIVE first_resolved(_, _, _)
first_resolved(d, names, i) ==
  IF i > Len(names) THEN None
  ELSE LET r == get_mod_cloned(d, names[i])
       IN IF IsSome(r) THEN r ELSE first_resolved(d, names, i + 1)

RECURSIVE add_block_positions(_, _, _, _)
add_block_positions(d, row, m, i) ==
  IF i > Len(row.nums) THEN d
  ELSE add_block_positions(
         add_position_expectation(d,
           [position |-> from_num(row.nums[i]),
            modifications |-> <<m>>,
            conservation |-> row.conservation,
            functional_role |-> row.functional_role,
            isotypes |-> row.isotypes]),
         row, m, i + 1)

\* The table applied up to its first row without a resolved modification.
RECURSIVE load_eukaryotic_expectations_until_unresolved(_, _)
load_eukaryotic_expectations_until_unresolved(d, i) ==
  IF i > Len(EukaryoticExpectations) THEN d
  ELSE LET row == EukaryoticExpectations[i]
           m == first_resolved(d, row.names, 1)
       IN IF IsSome(m)
          THEN load_eukaryotic_expectations_until_unresolved(
                 add_block_positions(d, row, Unwrap(m), 1), i + 1)
          ELSE d

RECURSIVE load_eukaryotic_expectations_from(_, _)
load_eukaryotic_expectations_from(d, i) ==
  IF i > Len(EukaryoticExpectations) THEN d
  ELSE LET row == EukaryoticExpectations[i]
           m == first_resolved(d, row.names, 1)
       IN load_eukaryotic_expectations_from(
            IF IsSome(m) THEN add_block_positions(d, row, Unwrap(m), 1) ELSE d,
            i + 1)

load_eukaryotic_expectations(d) == load_eukaryotic_expectations_from(d, 1)

eukaryotic ==
  load_eukaryotic_expectations(setup_aliases(load_default_modifications(EmptyDb)))

(***************************************************************************)
(* MODOMICS import (modification/modomics.rs)                              *)
(***************************************************************************)

Ok(v) == [ok |-> TRUE, value |-> v]
Err(e) == [ok |-> FALSE, error |-> e]

\* serde deserialization of one ModomicsEntry: id, name and short_name are
\* required fields, the #[serde(default)] fields may be absent.
entry_deserializes(raw) == IsSome(raw.id) /\ IsSome(raw.name) /\ IsSome(raw.short_name)

deserialize_entry(raw) ==
  [id |-> Unwrap(raw.id), name |-> Unwrap(raw.name),
   short_name |-> Unwrap(raw.short_name),
   new_abbrev |-> raw.new_abbrev,
   reference_moiety |-> IF IsSome(raw.reference_moiety)
                        THEN Unwrap(raw.reference_moiety) ELSE <<>>]

RECURSIVE other_bases(_, _, _)
other_bases(all, parent_base, i) ==
  IF i > Len(all) THEN <<>>
  ELSE IF all[i] # parent_base
       THEN <<all[i]>> \o other_bases(all, parent_base, i + 1)
       ELSE other_bases(all, parent_base, i + 1)

\* The body of convert_entry after the parent base is known.
modification_of_entry(entry, parent_base, incompatible_bases) ==
  LET modomics_unicode ==
        IF IsSome(entry.new_abbrev) /\ Len(Unwrap(entry.new_abbrev)) > 0
        THEN Some(Unwrap(entry.new_abbrev)[1]) ELSE None
      code ==
        IF IsSome(modomics_unicode) THEN Unicode(Unwrap(modomics_unicode))
        ELSE IF Len(entry.short_name) = 1 THEN SingleChar(entry.short_name[1])
        ELSE ShortName(entry.short_name)
      alt_codes ==
        IF Len(entry.short_name) = 1 /\ code.kind # "SingleChar"
        THEN <<SingleChar(entry.short_name[1])>> ELSE <<>>
  IN [name |-> entry.name, short_name |-> entry.short_name,
      code |-> code, alt_codes |-> alt_codes,
      parent_base |-> parent_base, genomic_expectation |-> parent_base,
      incompatible_bases |-> incompatible_bases,
      chebi_id |-> None, modomics_unicode |-> modomics_unicode]

\* A conversion that forgets to leave the parent base out of the
\* incompatible set.
convert_entry_all_incompatible(entry) ==
  IF Len(entry.reference_moiety) > 0 /\ entry.reference_moiety[1] \in {"A", "C", "G", "U"}
  THEN Some(modification_of_entry(entry, entry.reference_moiety[1], <<"A", "C", "G", "U">>))
  ELSE None

\* A conversion that takes the last reference base for the parent base.
convert_entry_last_base(entry) ==
  IF Len(entry.reference_moiety) > 0
       /\ entry.reference_moiety[Len(entry.reference_moiety)] \in {"A", "C", "G", "U"}
  THEN LET parent_base == entry.reference_moiety[Len(entry.reference_moiety)]
       IN Some(modification_of_entry(entry, parent_base,
                 other_bases(<<"A", "C", "G", "U">>, parent_base, 1)))
  ELSE None

\* A conversion that takes uridine for the parent of an entry naming no
\* known base.
convert_entry_default_uridine(entry) ==
  LET parent_base ==
        IF Len(entry.reference_moiety) > 0 /\ entry.reference_moiety[1] \in {"A", "C", "G", "U"}
        THEN entry.reference_moiety[1] ELSE "U"
  IN Some(modification_of_entry(entry, parent_base,
            other_bases(<<"A", "C", "G", "U">>, parent_base, 1)))

convert_entry(entry) ==
  IF Len(entry.reference_moiety) > 0 /\ entry.reference_moiety[1] \in {"A", "C", "G", "U"}
  THEN LET parent_base == entry.reference_moiety[1]
       IN Some(modification_of_entry(entry, parent_base,
                 other_bases(<<"A", "C", "G", "U">>, parent_base, 1)))
  ELSE None

RECURSIVE convert_entries(_, _, _)
convert_entries(raws, i, modifications) ==
  IF i > Len(raws) THEN modifications
  ELSE LET m == convert_entry(deserialize_entry(raws[i]))
       IN convert_entries(raws, i + 1,
            IF IsSome(m)
            THEN Insert(modifications, Unwrap(m).short_name, Unwrap(m))
            ELSE modifications)

\* json is the document: whether it is a JSON object at all, and its
\* entries in the order the parsed map iterates them.
parse_modomics_json(json) ==
  IF ~json.wellformed \/ \E i \in 1..Len(json.entries) : ~entry_deserializes(json.entries[i])
  THEN Err("ParseError")
  ELSE Ok(convert_entries(json.entries, 1, EmptyMap))

\* An unreadable file reported as a parse failure.
parse_modomics_file_parse_only(file) ==
  IF ~file.readable THEN Err("ParseError") ELSE parse_modomics_json(file.content)

parse_modomics_file(file) ==
  IF ~file.readable THEN Err("IoError") ELSE parse_modomics_json(file.content)

db_with_modifications(parsed) ==
  IF ~parsed.ok THEN parsed
  ELSE Ok(load_eukaryotic_expectations(setup_aliases(
            [EmptyDb EXCEPT !.modifications = parsed.value])))

from_modomics_json(json) == db_with_modifications(parse_modomics_json(json))

from_modomics_file(file) == db_with_modifications(parse_modomics_file(file))

(***************************************************************************)
(* Compatibility analysis (analysis/compatibility.rs)                      *)
(***************************************************************************)

\* Universal expectations graded Major.
severity_of_no_critical(conservation) ==
  IF conservation = "Rare" THEN "Minor" ELSE "Major"

\* IsotypeSpecific expectations graded Minor.
severity_of_isotype_minor(conservation) ==
  CASE conservation = "Universal" -> "Critical"
    [] conservation = "DomainSpecific" -> "Major"
    [] conservation = "IsotypeSpecific" -> "Minor"
    [] conservation = "Rare" -> "Minor"

severity_of(conservation) ==
  CASE conservation = "Universal" -> "Critical"
    [] conservation = "DomainSpecific" -> "Major"
    [] conservation = "IsotypeSpecific" -> "Major"
    [] conservation = "Rare" -> "Minor"

\* A score is the f64 quotient num / den of two small counts, kept as the
\* pair; 1.0 is the pair 1 / 1.
One == [num |-> 1, den |-> 1]
ScoreLt(s, t) == s.num * t.den < t.num * s.den
ScoreEq(s, t) == s.num * t.den = t.num * s.den

\* A score of 0.0 when nothing was checked.
compatibility_score_zero_default(positions_checked, positions_compatible) ==
  IF positions_checked > 0
  THEN [num |-> positions_compatible, den |-> positions_checked]
  ELSE [num |-> 0, den |-> 1]

compatibility_score(positions_checked, positions_compatible) ==
  IF positions_checked > 0
  THEN [num |-> positions_compatible, den |-> positions_checked]
  ELSE One

has_significant_incompatibility(incompatibilities) ==
  \E i \in 1..Len(incompatibilities) :
    incompatibilities[i].severity \in {"Critical", "Major"}

\* The verdict taken from the incompatibility list alone.
is_odd_of_ignoring_score(score, incompatibilities) ==
  has_significant_incompatibility(incompatibilities)

is_odd_of(score, incompatibilities) ==
  ScoreLt(score, One) /\ has_significant_incompatibility(incompatibilities)

\* An index past the end answered with the last character.
nth_clamped(s, idx) ==
  IF Len(s) = 0 THEN None
  ELSE IF idx < Len(s) THEN Some(s[idx + 1]) ELSE Some(s[Len(s)])

\* String::chars().nth(idx)
nth(s, idx) == IF idx < Len(s) THEN Some(s[idx + 1]) ELSE None

\* One iteration of the fallback loop over hit.sequence.chars().enumerate().
fallback_step(m, seq_idx, res) ==
  LET sprinzl == get_sprinzl(m, seq_idx)
  IN IF IsSome(sprinzl) THEN Insert(res, Unwrap(sprinzl), seq_idx) ELSE res

RECURSIVE fallback_loop(_, _, _, _)
fallback_loop(m, lo, hi, res) ==
  IF hi <= lo THEN res
  ELSE IF hi = lo + 1 THEN fallback_step(m, lo, res)
  ELSE LET first == fallback_loop(m, lo, Mid(lo, hi), res)
       IN Strict(first, fallback_loop(m, Mid(lo, hi), hi, first))

\* The positional fallback taken whenever the structure maps nothing.
map_sequence_to_sprinzl_fallback_when_unmapped(h, m) ==
  IF DOMAIN map_alignment(m, h.structure) # {}
  THEN map_alignment(m, h.structure)
  ELSE fallback_loop(m, 0, Len(h.sequence), EmptyMap)

map_sequence_to_sprinzl(h, m) ==
  IF Len(h.structure) # 0
  THEN map_alignment(m, h.structure)
  ELSE fallback_loop(m, 0, Len(h.sequence), EmptyMap)

\* The inner loop over expectation.modifications, from alternative j.
RECURSIVE check_modifications(_, _, _, _, _)
check_modifications(expectation, j, observed, sprinzl_pos, incs) ==
  IF j > Len(expectation.modifications)
  THEN [position_compatible |-> FALSE, incompatibilities |-> incs]
  ELSE LET modification == expectation.modifications[j]
       IN IF is_compatible(modification, observed)
          THEN [position_compatible |-> TRUE, incompatibilities |-> incs]
          ELSE check_modifications(expectation, j + 1, observed, sprinzl_pos,
                 Append(incs, [position |-> sprinzl_pos,
                               observed_base |-> observed,
                               expected_mod_name |-> modification.short_name,
                               severity |-> severity_of(expectation.conservation)]))

\* The loop over expectations without the early exit: every expectation is
\* walked, whatever the ones before it found.
RECURSIVE check_expectations_no_break(_, _, _, _, _)
check_expectations_no_break(expectations, i, observed, sprinzl_pos, incs) ==
  IF i > Len(expectations)
  THEN [position_compatible |-> FALSE, incompatibilities |-> incs]
  ELSE LET r == check_modifications(expectations[i], 1, observed, sprinzl_pos, incs)
           rest == check_expectations_no_break(expectations, i + 1, observed, sprinzl_pos,
                                               r.incompatibilities)
       IN [position_compatible |-> r.position_compatible \/ rest.position_compatible,
           incompatibilities |-> rest.incompatibilities]

\* The loop over expectations, from expectation i.
RECURSIVE check_expectations(_, _, _, _, _)
check_expectations(expectations, i, observed, sprinzl_pos, incs) ==
  IF i > Len(expectations)
  THEN [position_compatible |-> FALSE, incompatibilities |-> incs]
  ELSE LET r == check_modifications(expectations[i], 1, observed, sprinzl_pos, incs)
       IN IF r.position_compatible THEN r
          ELSE check_expectations(expectations, i + 1, observed, sprinzl_pos,
                                  r.incompatibilities)

\* The expectations of a position whatever the isotype of the hit.
expectations_for_ignoring_isotype(h, mod_db, sprinzl_pos) ==
  get_expectations(mod_db, sprinzl_pos)

\* The expectations the loop body fetches for one position.
expectations_for(h, mod_db, sprinzl_pos) ==
  IF IsSome(h.isotype)
  THEN get_expectations_for_isotype(mod_db, sprinzl_pos, Unwrap(h.isotype))
  ELSE get_expectations(mod_db, sprinzl_pos)

\* One iteration that counts a position without expectations as checked.
analyze_position_counting_unexpected(h, mod_db, sprinzl_pos, seq_idx, acc) ==
  LET base_char == nth(h.sequence, seq_idx)
      observed_base == IF IsSome(base_char) THEN from_dna_char(Unwrap(base_char)) ELSE None
  IN IF ~IsSome(observed_base) THEN acc
     ELSE LET r == check_expectations(expectations_for(h, mod_db, sprinzl_pos), 1,
                                      Unwrap(observed_base), sprinzl_pos,
                                      acc.incompatibilities)
          IN [incompatibilities |-> r.incompatibilities,
              positions_checked |-> acc.positions_checked + 1,
              positions_compatible |->
                acc.positions_compatible + (IF r.position_compatible THEN 1 ELSE 0)]

\* One iteration of the loop over sprinzl_alignment.
analyze_position(h, mod_db, sprinzl_pos, seq_idx, acc) ==
  LET base_char == nth(h.sequence, seq_idx)
      observed_base == IF IsSome(base_char) THEN from_dna_char(Unwrap(base_char)) ELSE None
  IN IF ~IsSome(observed_base) THEN acc
     ELSE LET expectations == expectations_for(h, mod_db, sprinzl_pos)
          IN IF Len(expectations) = 0 THEN acc
             ELSE LET r == check_expectations(expectations, 1, Unwrap(observed_base),
                                              sprinzl_pos, acc.incompatibilities)
                  IN [incompatibilities |-> r.incompatibilities,
                      positions_checked |-> acc.positions_checked + 1,
                      positions_compatible |->
                        acc.positions_compatible
                          + (IF r.position_compatible THEN 1 ELSE 0)]

\* The keys of a HashMap in one of the orders its iterator may produce:
\* table order or its reverse.
RECURSIVE keys_in_table_order(_, _, _)
keys_in_table_order(m, lo, hi) ==
  IF hi <= lo THEN <<>>
  ELSE IF hi = lo + 1
       THEN (IF positions[lo + 1] \in DOMAIN m THEN <<positions[lo + 1]>> ELSE <<>>)
  ELSE keys_in_table_order(m, lo, Mid(lo, hi)) \o keys_in_table_order(m, Mid(lo, hi), hi)

Reverse(s) == [i \in 1..Len(s) |-> s[Len(s) + 1 - i]]

iteration_order(m, ord) ==
  IF ord = "fwd"
  THEN keys_in_table_order(m, 0, Len(positions))
  ELSE Reverse(keys_in_table_order(m, 0, Len(positions)))

RECURSIVE analyze_loop(_, _, _, _, _, _, _)
analyze_loop(h, mod_db, sprinzl_alignment, keys, lo, hi, acc) ==
  IF hi <= lo THEN acc
  ELSE IF hi = lo + 1
       THEN analyze_position(h, mod_db, keys[lo + 1], sprinzl_alignment[keys[lo + 1]], acc)
  ELSE LET first == analyze_loop(h, mod_db, sprinzl_alignment, keys, lo, Mid(lo, hi), acc)
       IN Strict(first, analyze_loop(h, mod_db, sprinzl_alignment, keys, Mid(lo, hi), hi, first))

analyze_compatibility(h, mod_db, ord) ==
  LET sprinzl_alignment == map_sequence_to_sprinzl(h, new_standard)
      keys == iteration_order(sprinzl_alignment, ord)
      acc == analyze_loop(h, mod_db, sprinzl_alignment, keys, 0, Len(keys),
                          [incompatibilities |-> <<>>,
                           positions_checked |-> 0,
                           positions_compatible |-> 0])
      score == compatibility_score(acc.positions_checked, acc.positions_compatible)
  IN [done |-> TRUE,
      hit |-> h,
      sprinzl_alignment |-> sprinzl_alignment,
      incompatibilities |-> acc.incompatibilities,
      is_odd |-> is_odd_of(score, acc.incompatibilities),
      compatibility_score |-> score]

(***************************************************************************)
(* 64-bit floats (the f64 arithmetic of analysis/compatibility.rs)         *)
(***************************************************************************)

\* An f64 value v >= 0 is kept exactly, as the integer v * 2^60 written in
\* three limbs of 24 bits: v = (h * 2^48 + m * 2^24 + l) * 2^-60.  Every
\* f64 that is zero or lies in [2^-7, 2^10] is such an integer; the scores
\* of the analysis, their sums over a batch and their means lie there.
Limb == 2^24

F64Zero == [h |-> 0, m |-> 0, l |-> 0]

\* usize as f64
f64_of_usize(n) == [h |-> n * 4096, m |-> 0, l |-> 0]

F64One == f64_of_usize(1)

\* The exact sum of two limb integers.
FixAdd(a, b) ==
  LET l == a.l + b.l
      m == a.m + b.m + (l \div Limb)
  IN [h |-> a.h + b.h + (m \div Limb), m |-> m % Limb, l |-> l % Limb]

\* The exact difference a - b of two limb integers, a >= b.
FixSub(a, b) ==
  LET l == a.l - b.l
      bl == IF l < 0 THEN 1 ELSE 0
      m == a.m - b.m - bl
      bm == IF m < 0 THEN 1 ELSE 0
  IN [h |-> a.h - b.h - bm, m |-> m + bm * Limb, l |-> l + bl * Limb]

FixLt(a, b) ==
  \/ a.h < b.h
  \/ a.h = b.h /\ a.m < b.m
  \/ a.h = b.h /\ a.m = b.m /\ a.l < b.l

\* Quotient and remainder of a limb integer by n, 0 < n < 128.
FixDivInt(a, n) ==
  LET t == (a.h % n) * Limb + a.m
      u == (t % n) * Limb + a.l
  IN [q |-> [h |-> a.h \div n, m |-> t \div n, l |-> u \div n], rem |-> u % n]

RECURSIVE BitLen(_)
BitLen(x) == IF x = 0 THEN 0 ELSE 1 + BitLen(x \div 2)

FixBitLen(a) ==
  IF a.h > 0 THEN 48 + BitLen(a.h)
  ELSE IF a.m > 0 THEN 24 + BitLen(a.m)
  ELSE BitLen(a.l)

\* Rounding to single precision, 24 significant bits.
round_f32(a, sticky) ==
  LET k == FixBitLen(a) - 24 - 24
      low == a.m % (2^k)
      down == [h |-> a.h, m |-> a.m - low, l |-> 0]
  IN IF k <= 0 THEN a
     ELSE IF 2 * low >= 2^k THEN FixAdd(down, [h |-> 0, m |-> 2^k, l |-> 0]) ELSE down

\* IEEE 754 round-to-nearest, ties to even, to the 53 significant bits of an
\* f64: a is the exact value cut off below 2^-60, sticky says that something
\* was cut off.
round_f64(a, sticky) ==
  LET k == FixBitLen(a) - 53
      low == a.l % (2^k)
      half == 2^(k - 1)
      down == [a EXCEPT !.l = a.l - low]
      up == FixAdd(down, [h |-> 0, m |-> 0, l |-> 2^k])
      odd == (a.l \div (2^k)) % 2 = 1
  IN IF k <= 0 THEN a
     ELSE IF low > half \/ (low = half /\ (sticky \/ odd)) THEN up
     ELSE down

\* Sums rounded to single precision.
f64_add_single(a, b) == round_f32(FixAdd(a, b), FALSE)

\* a + b
f64_add(a, b) == round_f64(FixAdd(a, b), FALSE)

\* a / (n as f64)
f64_div(a, n) ==
  LET d == FixDivInt(a, n)
  IN round_f64(d.q, d.rem # 0)

\* The f64 held in compatibility_score: positions_compatible as f64
\* / positions_checked as f64, or 1.0.
f64_of_score(score) == f64_div(f64_of_usize(score.num), score.den)

(***************************************************************************)
(* Batch analysis (analysis/compatibility.rs)                              *)
(***************************************************************************)

\* hits.iter().map(|hit| analyze_compatibility(hit, mod_db)).collect(); the
\* map of hit i is visited in the order ords[i].
batch_results(hs, mod_db, ords) ==
  [i \in 1..Len(hs) |-> analyze_compatibility(hs[i], mod_db, ords[i])]

\* results.iter().filter(|r| r.is_odd).count()
odd_count_of(results) == Cardinality({i \in 1..Len(results) : results[i].is_odd})

\* results.iter().map(|r| r.compatibility_score).sum::<f64>() over the first
\* n results: the scores are added one after the other, in list order.
RECURSIVE sum_scores(_, _)
sum_scores(results, n) ==
  IF n = 0 THEN F64Zero
  ELSE f64_add(sum_scores(results, n - 1), f64_of_score(results[n].compatibility_score))

\* An empty batch averaging 0.0.
avg_score_of_zero_default(results, total) ==
  IF total > 0 THEN f64_div(sum_scores(results, total), total) ELSE F64Zero

avg_score_of(results, total) ==
  IF total > 0 THEN f64_div(sum_scores(results, total), total) ELSE F64One

\* The BatchAnalysisResult built from the per-hit results.
batch_summary(results) ==
  LET total == Len(results)
  IN [done |-> TRUE,
      results |-> results,
      total_trnas |-> total,
      odd_trnas |-> odd_count_of(results),
      average_compatibility |-> avg_score_of(results, total)]

analyze_batch(hs, mod_db, ords) == batch_summary(batch_results(hs, mod_db, ords))

(***************************************************************************)
(* Odd tRNA detection (analysis/odd_trna.rs)                               *)
(***************************************************************************)

\* a < b on f64
f64_lt(a, b) == FixLt(a, b)

\* The filter keeping the results at or below the threshold.
detect_odd_trnas_inclusive(hs, mod_db, threshold, ords) ==
  SelectSeq(batch_results(hs, mod_db, ords),
            LAMBDA r : ~f64_lt(threshold, f64_of_score(r.compatibility_score)))

\* hits.iter().map(analyze_compatibility).filter(score < threshold).collect();
\* ords gives the order in which each analysis visits its mapping.
detect_odd_trnas(hs, mod_db, threshold, ords) ==
  SelectSeq(batch_results(hs, mod_db, ords),
            LAMBDA r : f64_lt(f64_of_score(r.compatibility_score), threshold))

(***************************************************************************)
(* Inputs                                                                  *)
(***************************************************************************)

\* Largest column index asked of get_sprinzl.
MaxCmIdx == 100
\* Alignments of up to this length are enumerated exhaustively.
MaxShortLen == 3
\* Longest run of gap characters placed in a long alignment.
MaxGapRun == 2
\* How many columns a long alignment may extend past the table.
MaxOverhang == 2

N == Len(positions)

AlnChars == {"-", ".", "(", "A"}

RECURSIVE SeqsUpTo(_, _)
SeqsUpTo(S, n) ==
  IF n = 0 THEN {<<>>}
  ELSE LET shorter == SeqsUpTo(S, n - 1)
       IN shorter \cup {Append(s, c) : s \in {t \in shorter : Len(t) = n - 1}, c \in S}

\* A string of residues of length len with a run of gw gap characters gc
\* starting at column gs.
GapRun(len, gs, gw, gc) ==
  [i \in 1..len |-> IF i - 1 >= gs /\ i - 1 < gs + gw THEN gc ELSE "("]

LongAlignments ==
  {GapRun(len, gs, gw, gc) :
     len \in (N - 1)..(N + MaxOverhang),
     gs \in {0, 1, 36, N - 2, N - 1, N},
     gw \in 0..MaxGapRun,
     gc \in {"-", "."}}

Alignments == SeqsUpTo(AlnChars, MaxShortLen) \cup LongAlignments

QueryLabels ==
  {positions[i] : i \in 1..Len(positions)} \cup {<<"7","7">>, <<"e","6">>, <<"0">>}

\* Labels asked for their base number: those of the table, and labels out
\* of it with a number above 255, with letters first, and with no digit.
PositionLabels ==
  QueryLabels \cup {<<"2","5","6">>, <<"3","0","0","a">>, <<"a","1">>, <<"x">>, <<"0","7">>,
                    <<"2","0","A">>, <<"0","3","4">>, <<"2","0","c">>, <<>>}

\* Characters given to from_dna_char: every letter in both cases, and
\* characters that are no letters.
DnaChars ==
  {LowerCase[i] : i \in 1..Len(LowerCase)} \cup {UpperCase[i] : i \in 1..Len(UpperCase)}
    \cup {"-", ".", "*", "0"}

\* Longest catalog document.
MaxCatalogLen == 2

RawEntry(id, name, short_name, new_abbrev, reference_moiety) ==
  [id |-> id, name |-> name, short_name |-> short_name,
   new_abbrev |-> new_abbrev, reference_moiety |-> reference_moiety]

\* Catalog entries: well-formed ones, entries the import drops, two entries
\* sharing a short name, and one without the id field.
EntryPool ==
  << RawEntry(Some(118), Some("pseudouridine"), Some(<<"Y">>), Some(<<"P">>), Some(<<"U">>)),
     RawEntry(Some(119), Some("pseudouridine-c"), Some(<<"Y">>), None, Some(<<"C">>)),
     RawEntry(Some(14), Some("dihydrouridine"), Some(<<"D">>), Some(<<"D">>), Some(<<"U">>)),
     RawEntry(Some(999), Some("unknown"), Some(<<"X">>), None, Some(<<"X">>)),
     RawEntry(Some(113), Some("inosine"), Some(<<"I">>), Some(<<"I">>), Some(<<"A">>)),
     RawEntry(Some(93), Some("queuosine"), Some(<<"Q">>), None, Some(<<"G", "A">>)),
     RawEntry(Some(500), Some("pseudouridine"), Some(<<"P","s","i">>), Some(<<>>), Some(<<"U">>)),
     RawEntry(Some(54), Some("5-methyluridine"), Some(<<"m","5","U">>), None, None),
     RawEntry(None, Some("1-methyladenosine"), Some(<<"m","1","A">>), None, Some(<<"A">>)),
     RawEntry(Some(7), Some("7-methylguanosine"), Some(<<"m","7","G">>), Some(<<"7">>), Some(<<>>)) >>

\* len consecutive entries of the pool, taken cyclically from entry s.
Window(s, len) ==
  [i \in 1..len |-> EntryPool[((s + i - 2) % Len(EntryPool)) + 1]]

Documents ==
  {[wellformed |-> TRUE, entries |-> e] :
     e \in {Window(s, len) : s \in 1..Len(EntryPool), len \in 0..MaxCatalogLen}
           \cup {Reverse(Window(1, len)) : len \in 0..MaxCatalogLen}}
  \cup {[wellformed |-> FALSE, entries |-> <<>>]}

Files ==
  {[readable |-> FALSE, content |-> [wellformed |-> FALSE, entries |-> <<>>]]}
  \cup {[readable |-> TRUE, content |-> d] :
          d \in {[wellformed |-> FALSE, entries |-> <<>>],
                 [wellformed |-> TRUE, entries |-> <<>>],
                 [wellformed |-> TRUE, entries |-> Window(1, 1)]}}

\* A sequence of length len of the character bg with the character fc at
\* index fi.
SeqOf(len, bg, fi, fc) == [i \in 1..len |-> IF i - 1 = fi THEN fc ELSE bg]

\* Sequence indices given a base of their own: the columns of the labels
\* 34, 54 and 55.
FocusIndices == {36, 75, 76}

\* Sequences of the unmappable character N with one base of its own, and
\* sequences of one base throughout.
HitSequences ==
  {SeqOf(len, "N", fi, fc) :
     len \in {0, 77, N + MaxOverhang},
     fi \in FocusIndices,
     fc \in {"A", "g", "t"}}
  \cup {SeqOf(len, bg, 0, bg) : len \in {77, N + MaxOverhang}, bg \in {"A", "g"}}

HitStructures ==
  { <<>>,
    GapRun(N, 0, 1, "."),
    GapRun(N + MaxOverhang, 36, MaxGapRun, "-") }

HitIsotypes == {None, Some(ALA), Some(ASN)}

\* Hits of one base throughout whose isotype string is in no expectation of
\* the table: a standard isotype, and a listed one in lower case.
UnnamedIsotypeHits ==
  {[sequence |-> SeqOf(77, bg, 0, bg), structure |-> <<>>, isotype |-> Some(iso)] :
     bg \in {"A", "g"}, iso \in {GLY, "ala"}}

\* Hits whose structure holds gap characters only.
GapOnlyHits ==
  {[sequence |-> SeqOf(77, "g", 0, "g"), structure |-> st, isotype |-> None] :
     st \in {<<".">>, <<"-", ".">>}}

Hits ==
  {[sequence |-> s, structure |-> st, isotype |-> iso] :
     s \in HitSequences, st \in HitStructures, iso \in HitIsotypes}
  \cup UnnamedIsotypeHits \cup GapOnlyHits

\* Longest batch of hits.
MaxBatchLen == 3

\* A sequence of length len of the character bg with the character fc at
\* the indices in F.
SeqWith(len, bg, F, fc) == [i \in 1..len |-> IF i - 1 \in F THEN fc ELSE bg]

\* The hits batches are made of: a U at label 16 under a structure longer
\* than the table and the sequence; an A at label 16; a U at label 16 with an
\* A at labels 17 and 20.
BatchHits ==
  { [sequence |-> SeqWith(21, "N", {15}, "t"),
     structure |-> GapRun(N + MaxOverhang, 36, MaxGapRun, "-"), isotype |-> None],
    [sequence |-> SeqWith(21, "N", {15}, "A"), structure |-> <<>>, isotype |-> None],
    [sequence |-> [SeqWith(21, "N", {16, 20}, "A") EXCEPT ![16] = "t"],
     structure |-> <<>>, isotype |-> Some(ALA)] }

Batches == SeqsUpTo(BatchHits, MaxBatchLen)

\* The visiting orders given to the hits of a batch of n hits.
BatchOrders(n) ==
  {[i \in 1..n |-> "fwd"], [i \in 1..n |-> IF i % 2 = 1 THEN "rev" ELSE "fwd"]}

\* Positions asked for expectations: with one, with several, with
\* isotype-specific ones, with none, and an insertion.
ExpectationPositions ==
  {from_num(n) : n \in {16, 32, 33, 34, 37, 55}} \cup {<<"1","7","a">>}

\* Isotypes asked for: the twenty standard ones, the initiator, and a
\* standard one in lower case.
QueryIsotypes ==
  {ALA, ARG, ASN, ASP, CYS, GLN, GLU, GLY, HIS, ILE, LEU, LYS, MET, PHE, PRO, SER, THR,
   TRP, TYR, VAL, "iMet", "ala"}

\* Thresholds given to the detection: 0.0, 0.25, 1.0 and 2.0.
Thresholds ==
  {F64Zero, f64_div(F64One, 4), F64One, f64_of_usize(2)}

\* The batches given to the detection: none of the hits, and all of them in
\* every order.
DetectionBatches ==
  {<<>>} \cup {hs \in [1..Cardinality(BatchHits) -> BatchHits] :
                \A i, j \in DOMAIN hs : hs[i] = hs[j] => i = j}

ConservationLevels == {"Universal", "DomainSpecific", "IsotypeSpecific", "Rare"}

ModNames ==
  {<<"P","s","i">>, <<"Y">>, <<"p","s","i">>, <<"T">>, <<"r","T">>, <<"m","5","U">>,
   <<"D">>, <<"I">>, <<"X">>, <<"Z">>}

(***************************************************************************)
(* State machine                                                           *)
(***************************************************************************)

Init ==
  /\ pc = "init"
  /\ mapper = new_standard
  /\ alignment = <<>>
  /\ mapping = EmptyMap
  /\ query = [op |-> "none"]
  /\ catalog = [wellformed |-> TRUE, entries |-> <<>>]
  /\ db = [built |-> FALSE]
  /\ hit = [sequence |-> <<>>, structure |-> <<>>, isotype |-> None]
  /\ order = "fwd"
  /\ result = [done |-> FALSE]
  /\ hits = <<>>
  /\ orders = <<>>
  /\ batch = [done |-> FALSE]

GetSprinzl ==
  /\ pc = "init"
  /\ \E i \in 0..MaxCmIdx :
       query' = [op |-> "get_sprinzl", cm_idx |-> i, out |-> get_sprinzl(mapper, i)]
  /\ pc' = "queried"
  /\ UNCHANGED <<mapper, alignment, mapping, catalog, db, hit, order, result, hits, orders, batch>>

GetCmIndex ==
  /\ pc = "init"
  /\ \E l \in QueryLabels :
       query' = [op |-> "get_cm_index", sprinzl |-> l, out |-> get_cm_index(mapper, l)]
  /\ pc' = "queried"
  /\ UNCHANGED <<mapper, alignment, mapping, catalog, db, hit, order, result, hits, orders, batch>>

IsCriticalPosition ==
  /\ pc = "init"
  /\ \E l \in PositionLabels :
       query' = [op |-> "is_critical_position", sprinzl |-> l, out |-> is_critical_position(l)]
  /\ pc' = "queried"
  /\ UNCHANGED <<mapper, alignment, mapping, catalog, db, hit, order, result, hits, orders, batch>>

FromDnaChar ==
  /\ pc = "init"
  /\ \E c \in DnaChars :
       query' = [op |-> "from_dna_char", c |-> c, out |-> from_dna_char(c)]
  /\ pc' = "queried"
  /\ UNCHANGED <<mapper, alignment, mapping, catalog, db, hit, order, result, hits, orders, batch>>

BaseNumber ==
  /\ pc = "init"
  /\ \E l \in PositionLabels :
       query' = [op |-> "base_number", sprinzl |-> l, out |-> base_number(l)]
  /\ pc' = "queried"
  /\ UNCHANGED <<mapper, alignment, mapping, catalog, db, hit, order, result, hits, orders, batch>>

IsInsertion ==
  /\ pc = "init"
  /\ \E l \in PositionLabels :
       query' = [op |-> "is_insertion", sprinzl |-> l, out |-> is_insertion(l)]
  /\ pc' = "queried"
  /\ UNCHANGED <<mapper, alignment, mapping, catalog, db, hit, order, result, hits, orders, batch>>

\* The severity derivation of the analysis applied to one conservation level.
SeverityOf ==
  /\ pc = "init"
  /\ \E conservation \in ConservationLevels :
       query' = [op |-> "severity_of", conservation |-> conservation,
                 out |-> severity_of(conservation)]
  /\ pc' = "queried"
  /\ UNCHANGED <<mapper, alignment, mapping, catalog, db, hit, order, result, hits, orders, batch>>

MapAlignment ==
  /\ pc = "init"
  /\ \E aln \in Alignments :
       /\ alignment' = aln
       /\ mapping' = map_alignment(mapper, aln)
  /\ pc' = "mapped"
  /\ UNCHANGED <<mapper, query, catalog, db, hit, order, result, hits, orders, batch>>

Eukaryotic ==
  /\ pc = "init"
  /\ db' = eukaryotic
  /\ pc' = "ready"
  /\ UNCHANGED <<mapper, alignment, mapping, query, catalog, hit, order, result, hits, orders, batch>>

FromModomicsJson ==
  /\ pc = "init"
  /\ \E json \in Documents :
       LET r == from_modomics_json(json)
       IN /\ catalog' = json
          /\ db' = IF r.ok THEN r.value ELSE [built |-> FALSE, error |-> r.error]
          /\ pc' = IF r.ok THEN "ready" ELSE "failed"
  /\ UNCHANGED <<mapper, alignment, mapping, query, hit, order, result, hits, orders, batch>>

FromModomicsFile ==
  /\ pc = "init"
  /\ \E file \in Files :
       LET r == from_modomics_file(file)
       IN /\ catalog' = file
          /\ db' = IF r.ok THEN r.value ELSE [built |-> FALSE, error |-> r.error]
          /\ pc' = IF r.ok THEN "ready" ELSE "failed"
  /\ UNCHANGED <<mapper, alignment, mapping, query, hit, order, result, hits, orders, batch>>

GetModification ==
  /\ pc = "ready"
  /\ \E name \in ModNames :
       query' = [op |-> "get_modification", name |-> name,
                 out |-> get_modification(db, name)]
  /\ pc' = "looked_up"
  /\ UNCHANGED <<mapper, alignment, mapping, catalog, db, hit, order, result, hits, orders, batch>>

GetExpectationsForIsotype ==
  /\ pc = "ready"
  /\ \E position \in ExpectationPositions, isotype \in QueryIsotypes :
       query' = [op |-> "get_expectations_for_isotype", position |-> position,
                 isotype |-> isotype,
                 out |-> get_expectations_for_isotype(db, position, isotype)]
  /\ pc' = "expected"
  /\ UNCHANGED <<mapper, alignment, mapping, catalog, db, hit, order, result, hits, orders, batch>>

AnalyzeCompatibility ==
  /\ pc = "ready"
  /\ \E h \in Hits, ord \in {"fwd", "rev"} :
       /\ hit' = h
       /\ order' = ord
       /\ result' = analyze_compatibility(h, db, ord)
  /\ pc' = "analyzed"
  /\ UNCHANGED <<mapper, alignment, mapping, query, catalog, db, hits, orders, batch>>

AnalyzeBatch ==
  /\ pc = "ready"
  /\ \E hs \in Batches : \E ords \in BatchOrders(Len(hs)) :
       /\ hits' = hs
       /\ orders' = ords
       /\ batch' = analyze_batch(hs, db, ords)
  /\ pc' = "batched"
  /\ UNCHANGED <<mapper, alignment, mapping, query, catalog, db, hit, order, result>>

DetectOddTrnas ==
  /\ pc = "ready"
  /\ \E hs \in DetectionBatches, threshold \in Thresholds : \E ords \in BatchOrders(Len(hs)) :
       /\ hits' = hs
       /\ orders' = ords
       /\ query' = [op |-> "detect_odd_trnas", threshold |-> threshold,
                    out |-> detect_odd_trnas(hs, db, threshold, ords)]
  /\ pc' = "detected"
  /\ UNCHANGED <<mapper, alignment, mapping, catalog, db, hit, order, result, batch>>

Next ==
  \/ GetSprinzl
  \/ GetCmIndex
  \/ IsCriticalPosition
  \/ FromDnaChar
  \/ BaseNumber
  \/ IsInsertion
  \/ SeverityOf
  \/ MapAlignment
  \/ Eukaryotic
  \/ FromModomicsJson
  \/ FromModomicsFile
  \/ GetModification
  \/ GetExpectationsForIsotype
  \/ AnalyzeCompatibility
  \/ AnalyzeBatch
  \/ DetectOddTrnas

Spec == Init /\ [][Next]_vars

(***************************************************************************)
(* Properties                                                              *)
(***************************************************************************)

Range(f) == {f[x] : x \in DOMAIN f}

Labels == {positions[i] : i \in 1..Len(positions)}

\* C1: the standard mapper is a bijection between the column indices 0..N-1
\* and the N canonical labels: get_cm_index(get_sprinzl(i)) = i for every
\* column of the table, get_sprinzl(get_cm_index(L)) = L for every canonical
\* label, the labels are pairwise distinct, and get_sprinzl(i) is absent
\* exactly for i >= N.
C1_MapperBijection ==
  /\ \A i \in 0..MaxCmIdx :
       /\ IsSome(get_sprinzl(mapper, i)) <=> i < N
       /\ i < N => get_cm_index(mapper, Unwrap(get_sprinzl(mapper, i))) = Some(i)
  /\ \A l \in Labels :
       /\ IsSome(get_cm_index(mapper, l))
       /\ get_sprinzl(mapper, Unwrap(get_cm_index(mapper, l))) = Some(l)
  /\ \A i, j \in 1..Len(positions) : i # j => positions[i] # positions[j]

C1_Witness ==
  /\ pc = "queried"
  /\ query.op = "get_cm_index"
  /\ query.sprinzl = <<"3","4">>
  /\ query.out = Some(36)
  /\ get_sprinzl(mapper, 36) = Some(<<"3","4">>)

\* C2 as stated in the claim: get_sprinzl(i) is present for 0 <= i <= 96 and absent for
\* every i >= 97.
C2_Table97 ==
  (pc = "queried" /\ query.op = "get_sprinzl")
    => (IsSome(query.out) <=> query.cm_idx <= 96)

\* C2 amended: the table has exactly 98 entries; get_sprinzl(i) is present
\* for 0 <= i <= 97 and absent for every i >= 98.
C2_Table98 ==
  /\ Cardinality(DOMAIN mapper.cm_to_sprinzl) = 98
  /\ (pc = "queried" /\ query.op = "get_sprinzl")
       => (IsSome(query.out) <=> query.cm_idx <= 97)

C2_Witness ==
  /\ pc = "queried"
  /\ query.op = "get_sprinzl"
  /\ query.cm_idx = 97
  /\ query.out = Some(<<"7","6">>)

IsResidueChar(c) == c # "-" /\ c # "."

\* Number of residue characters among the first n columns of aln.
ResiduesBefore(aln, n) ==
  Cardinality({j \in 1..Min(n, Len(aln)) : IsResidueChar(aln[j])})

\* C3 as stated in the claim: the value set of map_alignment's result is exactly
\* {0, ..., R-1}, R the number of non-gap characters in the whole string.
C3_ValuesAllResidues ==
  pc = "mapped" => Range(mapping) = 0..(ResiduesBefore(alignment, Len(alignment)) - 1)

\* C3 amended: the value set of map_alignment's result is exactly
\* {0, ..., R-1}, R the number of non-gap characters among the first N
\* columns of the string, the columns that carry a canonical label.
C3_ValuesTableResidues ==
  pc = "mapped" => Range(mapping) = 0..(ResiduesBefore(alignment, N) - 1)

C3_Witness ==
  /\ pc = "mapped"
  /\ Len(alignment) = N + 1
  /\ IsResidueChar(alignment[N + 1])
  /\ \E j \in 1..N : ~IsResidueChar(alignment[j])
  /\ Range(mapping) = 0..(N - 2)

\* C4: map_alignment records the label of a column exactly when the
\* character at that column is a residue, the recorded value is the number
\* of residues strictly to the left of the column, and no two labels carry
\* the same sequence index.
C4_MapAlignmentExact ==
  pc = "mapped" =>
    /\ DOMAIN mapping =
         {positions[c + 1] : c \in {k \in 0..(Min(N, Len(alignment)) - 1) :
                                       IsResidueChar(alignment[k + 1])}}
    /\ \A c \in 0..(Min(N, Len(alignment)) - 1) :
         IsResidueChar(alignment[c + 1])
           => mapping[positions[c + 1]] = ResiduesBefore(alignment, c)
    /\ \A l1, l2 \in DOMAIN mapping : mapping[l1] = mapping[l2] => l1 = l2

C4_Witness ==
  /\ pc = "mapped"
  /\ Len(alignment) = N
  /\ alignment[37] = "." /\ alignment[38] = "."
  /\ <<"3","4">> \notin DOMAIN mapping
  /\ mapping[<<"3","7">>] = 37

P55 == <<"5","5">>

\* The positions the analysis of h against d counts as checked: mapped, with
\* a sequence index inside the sequence, a character that is a base, and at
\* least one expectation.
CheckedSet(h, d, sa) ==
  {l \in DOMAIN sa :
     /\ sa[l] < Len(h.sequence)
     /\ IsSome(from_dna_char(h.sequence[sa[l] + 1]))
     /\ Len(expectations_for(h, d, l)) > 0}

ObservedAt(h, sa, l) == Unwrap(from_dna_char(h.sequence[sa[l] + 1]))

\* The checked positions at which some alternative of some expectation does
\* not list the observed base as incompatible.
CompatibleSet(h, d, sa) ==
  {l \in CheckedSet(h, d, sa) :
     LET exps == expectations_for(h, d, l)
     IN \E i \in 1..Len(exps) : \E j \in 1..Len(exps[i].modifications) :
          ~Contains(exps[i].modifications[j].incompatible_bases, ObservedAt(h, sa, l))}

Only55Checked ==
  /\ pc = "analyzed"
  /\ db = eukaryotic
  /\ CheckedSet(hit, db, result.sprinzl_alignment) = {P55}

\* C5: against the built-in database, when label 55 is the only checked
\* position, a U there gives no incompatibility, score 1.0 and is_odd false;
\* an A there gives one incompatibility, of severity Critical, score 0.0 and
\* is_odd true.
C5_Position55Scenarios ==
  Only55Checked =>
    LET observed == ObservedAt(hit, result.sprinzl_alignment, P55)
    IN /\ observed = "U" =>
            /\ result.compatibility_score = [num |-> 1, den |-> 1]
            /\ result.incompatibilities = <<>>
            /\ result.is_odd = FALSE
       /\ observed = "A" =>
            /\ result.compatibility_score = [num |-> 0, den |-> 1]
            /\ Len(result.incompatibilities) = 1
            /\ result.incompatibilities[1].position = P55
            /\ result.incompatibilities[1].observed_base = "A"
            /\ result.incompatibilities[1].severity = "Critical"
            /\ result.is_odd = TRUE

C5_Witness ==
  /\ Only55Checked
  /\ Len(hit.structure) > 0
  /\ ObservedAt(hit, result.sprinzl_alignment, P55) = "A"
  /\ result.is_odd

\* C6: in the built-in database get_modification("Psi") and
\* get_modification("Y") both return a modification, and the same one.
C6_PsiAndYResolveAlike ==
  (pc = "looked_up" /\ db = eukaryotic /\ query.name \in {<<"P","s","i">>, <<"Y">>})
    => /\ IsSome(query.out)
       /\ get_modification(db, <<"P","s","i">>) = get_modification(db, <<"Y">>)

AllModifications(d) ==
  Range(d.modifications)
    \cup UNION {UNION {Range(e.modifications) : e \in Range(d.position_expectations[pos])} :
                  pos \in DOMAIN d.position_expectations}

\* C7: every modification stored in a database built by either path, and
\* every modification embedded in an expectation, is compatible with its own
\* genomic expectation, which is not among its incompatible bases.
C7_GenomicExpectationCompatible ==
  db.built =>
    \A m \in AllModifications(db) :
      /\ is_compatible(m, m.genomic_expectation)
      /\ \A i \in 1..Len(m.incompatible_bases) : m.incompatible_bases[i] # m.genomic_expectation

C7_Witness ==
  /\ pc = "ready"
  /\ db # eukaryotic
  /\ <<"Y">> \in DOMAIN db.modifications
  /\ db.modifications[<<"Y">>].genomic_expectation = "C"
  /\ P55 \in DOMAIN db.position_expectations

\* C8: every modification referenced inside a position expectation is
\* resolvable: get_modification with its short name returns a modification
\* with the same content.
C8_ExpectationModsResolvable ==
  db.built =>
    \A pos \in DOMAIN db.position_expectations :
      \A e \in Range(db.position_expectations[pos]) :
        \A m \in Range(e.modifications) :
          get_modification(db, m.short_name) = Some(m)

C8_Witness ==
  /\ pc = "ready"
  /\ db # eukaryotic
  /\ P55 \in DOMAIN db.position_expectations
  /\ db.position_expectations[P55][1].modifications[1].short_name = <<"Y">>
  /\ <<"P","s","i">> \notin DOMAIN db.modifications

\* C9: the score is compatible / checked when a position was checked and
\* exactly 1.0 when none was; compatible never exceeds checked, so the score
\* lies in [0, 1]; a hit with an empty structure and no expectation at any
\* mapped position scores 1.0 and is not odd.
C9_ScoreIsRatio ==
  pc = "analyzed" =>
    LET checked == Cardinality(CheckedSet(hit, db, result.sprinzl_alignment))
        compatible == Cardinality(CompatibleSet(hit, db, result.sprinzl_alignment))
        score == result.compatibility_score
    IN /\ checked > 0 => score = [num |-> compatible, den |-> checked]
       /\ checked = 0 => score = [num |-> 1, den |-> 1]
       /\ 0 <= score.num /\ score.num <= score.den /\ score.den > 0
       /\ (/\ Len(hit.structure) = 0
           /\ \A l \in DOMAIN result.sprinzl_alignment : Len(expectations_for(hit, db, l)) = 0)
            => (score = [num |-> 1, den |-> 1] /\ result.is_odd = FALSE)

C9_Witness ==
  /\ pc = "analyzed"
  /\ result.compatibility_score.den >= 2
  /\ result.compatibility_score.num >= 1
  /\ result.compatibility_score.num < result.compatibility_score.den

C9_WitnessVacuous ==
  /\ pc = "analyzed"
  /\ Len(hit.structure) = 0
  /\ DOMAIN result.sprinzl_alignment # {}
  /\ \A l \in DOMAIN result.sprinzl_alignment : Len(expectations_for(hit, db, l)) = 0
  /\ result.compatibility_score = [num |-> 1, den |-> 1]

\* C10: is_odd is true exactly when the score is below 1.0 and some recorded
\* incompatibility is Critical or Major; a result whose incompatibilities
\* are all Minor, or whose score is 1.0, is never odd.
C10_OddVerdict ==
  pc = "analyzed" =>
    LET score == result.compatibility_score
        incs == result.incompatibilities
        significant == \E i \in 1..Len(incs) : incs[i].severity \in {"Critical", "Major"}
    IN /\ result.is_odd <=> (score.num < score.den /\ significant)
       /\ (\A i \in 1..Len(incs) : incs[i].severity = "Minor") => ~result.is_odd
       /\ score.num = score.den => ~result.is_odd

C10_Witness ==
  /\ pc = "analyzed"
  /\ result.compatibility_score = [num |-> 1, den |-> 1]
  /\ Len(result.incompatibilities) = 1
  /\ result.incompatibilities[1].severity = "Major"
  /\ ~result.is_odd

\* The severity the claim assigns to each conservation level.
SeverityTable ==
  [c \in ConservationLevels |->
     IF c = "Universal" THEN "Critical"
     ELSE IF c = "Rare" THEN "Minor"
     ELSE "Major"]

\* The expectations consulted at the position of incompatibility inc that
\* hold the modification inc names.
SourceExpectations(h, d, inc) ==
  {e \in Range(expectations_for(h, d, inc.position)) :
     \E m \in Range(e.modifications) : m.short_name = inc.expected_mod_name}

\* C11: the severity of every recorded incompatibility is determined by the
\* conservation level of the expectation it came from alone: Universal gives
\* Critical, DomainSpecific and IsotypeSpecific give Major, Rare gives Minor.
C11_SeverityByConservation ==
  /\ (pc = "queried" /\ query.op = "severity_of")
       => query.out = SeverityTable[query.conservation]
  /\ pc = "analyzed" =>
       \A i \in 1..Len(result.incompatibilities) :
         LET inc == result.incompatibilities[i]
             sources == SourceExpectations(hit, db, inc)
         IN /\ sources # {}
            /\ \A e \in sources : inc.severity = SeverityTable[e.conservation]

C11_Witness ==
  /\ pc = "analyzed"
  /\ \E i, j \in 1..Len(result.incompatibilities) :
       /\ result.incompatibilities[i].severity = "Critical"
       /\ result.incompatibilities[j].severity = "Major"
       /\ \E e \in SourceExpectations(hit, db, result.incompatibilities[j]) :
            e.conservation = "IsotypeSpecific"

\* The exact sum of the scores of the first n results, as a fraction.
RECURSIVE RationalSum(_, _)
RationalSum(results, n) ==
  IF n = 0 THEN [num |-> 0, den |-> 1]
  ELSE LET rest == RationalSum(results, n - 1)
           score == results[n].compatibility_score
       IN [num |-> rest.num * score.den + score.num * rest.den,
           den |-> rest.den * score.den]

\* The fraction p / q, 0 <= p <= q, cut off below 2^-60, in limbs.
RatioTrunc(p, q) ==
  LET r0 == p % q
      r1 == (r0 * 4096) % q
      r2 == (r1 * 4096) % q
      r3 == (r2 * 4096) % q
      r4 == (r3 * 4096) % q
  IN [h |-> (p \div q) * 4096 + ((r0 * 4096) \div q),
      m |-> ((r1 * 4096) \div q) * 4096 + ((r2 * 4096) \div q),
      l |-> ((r3 * 4096) \div q) * 4096 + ((r4 * 4096) \div q)]

\* The arithmetic mean of the scores of results, cut off below 2^-60.
ExactMean(results) ==
  LET sum == RationalSum(results, Len(results))
  IN RatioTrunc(sum.num, sum.den * Len(results))

\* |a - b| <= 2^-30
Close(a, b) ==
  LET d == IF FixLt(a, b) THEN FixSub(b, a) ELSE FixSub(a, b)
  IN ~FixLt([h |-> 0, m |-> 64, l |-> 0], d)

\* C12: analyze_batch returns total_trnas equal to the number of input hits,
\* odd_trnas equal to the number of per-hit results that are odd, and
\* average_compatibility equal to the arithmetic mean of the per-hit scores
\* as far as an f64 holds it (to within 2^-30), 1.0 for an empty batch; a
\* batch of a hit scoring 1.0, not odd, and a hit scoring 0.0, odd, yields
\* 2, 1 and exactly 0.5.
C12_BatchSummary ==
  pc = "batched" =>
    /\ batch.total_trnas = Len(hits)
    /\ batch.odd_trnas = Cardinality({i \in 1..Len(batch.results) : batch.results[i].is_odd})
    /\ Len(hits) = 0 => batch.average_compatibility = F64One
    /\ Len(hits) > 0 => Close(batch.average_compatibility, ExactMean(batch.results))
    /\ (/\ Len(hits) = 2
        /\ \E i, j \in 1..2 :
             /\ batch.results[i].compatibility_score = [num |-> 1, den |-> 1]
             /\ ~batch.results[i].is_odd
             /\ batch.results[j].compatibility_score = [num |-> 0, den |-> 1]
             /\ batch.results[j].is_odd)
         => /\ batch.total_trnas = 2
            /\ batch.odd_trnas = 1
            /\ batch.average_compatibility = [h |-> 2048, m |-> 0, l |-> 0]

C12_Witness ==
  /\ pc = "batched"
  /\ Len(hits) = 2
  /\ batch.results[1].compatibility_score = [num |-> 1, den |-> 1]
  /\ ~batch.results[1].is_odd
  /\ batch.results[2].compatibility_score = [num |-> 0, den |-> 1]
  /\ batch.results[2].is_odd
  /\ batch.odd_trnas = 1
  /\ batch.average_compatibility = [h |-> 2048, m |-> 0, l |-> 0]

Permute(seq, perm) == [i \in 1..Len(seq) |-> seq[perm[i]]]

\* Each result of the batch has the score and the verdict of its hit
\* analysed on its own.
ResultsIndependent ==
  \A i \in 1..Len(hits) :
    LET alone == analyze_compatibility(hits[i], db, "fwd")
    IN /\ batch.results[i].compatibility_score = alone.compatibility_score
       /\ batch.results[i].is_odd = alone.is_odd

\* C13 as stated in the claim: the batch of any permutation of the hits, which is the
\* summary of the permuted per-hit results, has the same total_trnas, the
\* same odd_trnas and the same average_compatibility, and each hit's score
\* and verdict are those of the hit analysed on its own.
C13_PermutationSame ==
  pc = "batched" =>
    /\ ResultsIndependent
    /\ \A perm \in Permutations(1..Len(hits)) :
         LET permuted == batch_summary(Permute(batch.results, perm))
         IN /\ permuted.total_trnas = batch.total_trnas
            /\ permuted.odd_trnas = batch.odd_trnas
            /\ permuted.average_compatibility = batch.average_compatibility

\* C13 amended: the batch of any permutation of the hits has the same
\* total_trnas and the same odd_trnas, and an average_compatibility within
\* 2^-30 (less than 1e-9) of the original one: the scores are added in list
\* order and f64 addition is not associative.  Each hit's score and verdict
\* are those of the hit analysed on its own.
C13_PermutationClose ==
  pc = "batched" =>
    /\ ResultsIndependent
    /\ \A perm \in Permutations(1..Len(hits)) :
         LET permuted == batch_summary(Permute(batch.results, perm))
         IN /\ permuted.total_trnas = batch.total_trnas
            /\ permuted.odd_trnas = batch.odd_trnas
            /\ Close(permuted.average_compatibility, batch.average_compatibility)

C13_Witness ==
  /\ pc = "batched"
  /\ Len(hits) = 3
  /\ batch.odd_trnas = 1
  /\ \E perm \in Permutations(1..3) :
       LET permuted == batch_summary(Permute(batch.results, perm))
       IN /\ Permute(hits, perm) # hits
          /\ permuted.average_compatibility # batch.average_compatibility
          /\ Close(permuted.average_compatibility, batch.average_compatibility)

\* The mapped positions of a result whose sequence index lies past the end
\* of the sequence or holds a character that is not a base.
IrregularPositions(h, sa) ==
  {l \in DOMAIN sa :
     \/ sa[l] >= Len(h.sequence)
     \/ ~IsSome(from_dna_char(h.sequence[sa[l] + 1]))}

\* C14: the mapper and the analyzer return a result for every input: a
\* mapping holds canonical labels only, whatever the length of the string;
\* an analysis returns a result echoing its hit, in which a position whose
\* sequence index is past the end of the sequence or whose character is not
\* a base is skipped, neither counted nor recorded; a batch returns one
\* result per input hit, in input order, each echoing its hit.
C14_NeverFails ==
  /\ pc = "mapped" => DOMAIN mapping \subseteq Labels
  /\ pc = "analyzed" =>
       LET sa == result.sprinzl_alignment
           checked == CheckedSet(hit, db, sa)
       IN /\ result.done
          /\ result.hit = hit
          /\ DOMAIN sa \subseteq Labels
          /\ checked \cap IrregularPositions(hit, sa) = {}
          /\ \A i \in 1..Len(result.incompatibilities) :
               result.incompatibilities[i].position \in checked
          /\ result.compatibility_score.den = (IF checked = {} THEN 1 ELSE Cardinality(checked))
  /\ pc = "batched" =>
       /\ batch.done
       /\ Len(batch.results) = Len(hits)
       /\ \A i \in 1..Len(hits) :
            /\ batch.results[i].done
            /\ batch.results[i].hit = hits[i]
            /\ batch.results[i].sprinzl_alignment = map_sequence_to_sprinzl(hits[i], new_standard)

\* A batch holding a hit with a structure longer than the table, with more
\* residues than the sequence has characters, over a sequence holding
\* characters that are not bases.
C14_Witness ==
  /\ pc = "batched"
  /\ Len(hits) = MaxBatchLen
  /\ hits[1] # hits[2]
  /\ \E i \in 1..Len(hits) :
       LET h == hits[i]
           sa == batch.results[i].sprinzl_alignment
       IN /\ Len(h.structure) > N
          /\ ResiduesBefore(h.structure, Len(h.structure)) > Len(h.sequence)
          /\ \E j \in 1..Len(h.sequence) : ~IsSome(from_dna_char(h.sequence[j]))
          /\ IrregularPositions(h, sa) # {}
          /\ CheckedSet(h, db, sa) # {}

\* The catalog given to the construction came as a file.
FromFile == "readable" \in DOMAIN catalog

\* The document of the catalog given to the construction.
Document == IF FromFile THEN catalog.content ELSE catalog

\* A document of the expected schema: an object whose entries each hold an
\* id, a name and a short name.
MatchesSchema(doc) ==
  /\ doc.wellformed
  /\ \A i \in 1..Len(doc.entries) :
       /\ doc.entries[i].id # None
       /\ doc.entries[i].name # None
       /\ doc.entries[i].short_name # None

\* The fixed alias table.
AliasTable ==
  (<<"P","s","i">> :> <<"Y">>) @@ (<<"p","s","i">> :> <<"Y">>)
    @@ (<<"r","T">> :> <<"m","5","U">>) @@ (<<"T">> :> <<"m","5","U">>)

\* d holds, for every row of the expectation table one of whose
\* modifications d resolves, an expectation of that row at each of its
\* positions.
ExpectationsLoaded(d) ==
  \A r \in 1..Len(EukaryoticExpectations) :
    LET row == EukaryoticExpectations[r]
    IN (\E k \in 1..Len(row.names) : get_modification(d, row.names[k]) # None)
         => \A n \in Range(row.nums) :
              /\ from_num(n) \in DOMAIN d.position_expectations
              /\ \E e \in Range(d.position_expectations[from_num(n)]) :
                   /\ e.conservation = row.conservation
                   /\ e.isotypes = row.isotypes
                   /\ \E k \in 1..Len(row.names) :
                        get_modification(d, row.names[k]) = Some(e.modifications[1])

\* C15: construction from an external catalog is all-or-nothing: an
\* unreadable file gives IoError, a readable document that does not match
\* the schema gives ParseError, and in both cases there is no database;
\* otherwise the construction succeeds and the database holds the alias
\* table and the position expectations of every modification it resolves.
C15_AllOrNothing ==
  pc \notin {"init", "queried", "mapped"} =>
    /\ (FromFile /\ ~catalog.readable)
         => (pc = "failed" /\ db = [built |-> FALSE, error |-> "IoError"])
    /\ ((FromFile => catalog.readable) /\ ~MatchesSchema(Document))
         => (pc = "failed" /\ db = [built |-> FALSE, error |-> "ParseError"])
    /\ ((FromFile => catalog.readable) /\ MatchesSchema(Document))
         => /\ pc # "failed"
            /\ db.built
            /\ db.aliases = AliasTable
            /\ ExpectationsLoaded(db)

C15_Witness ==
  /\ pc = "failed"
  /\ FromFile
  /\ ~catalog.readable
  /\ db = [built |-> FALSE, error |-> "IoError"]

\* Every entry of doc holds a name, a short name and a list of one or more
\* reference bases.
EntriesComplete(doc) ==
  /\ doc.wellformed
  /\ \A i \in 1..Len(doc.entries) :
       /\ doc.entries[i].name # None
       /\ doc.entries[i].short_name # None
       /\ doc.entries[i].reference_moiety # None
       /\ Len(Unwrap(doc.entries[i].reference_moiety)) >= 1

EntriesHaveId(doc) == \A i \in 1..Len(doc.entries) : doc.entries[i].id # None

\* Entry i of doc names one of the four bases first.
FirstBaseKnown(doc, i) ==
  /\ doc.entries[i].reference_moiety # None
  /\ Len(Unwrap(doc.entries[i].reference_moiety)) >= 1
  /\ Unwrap(doc.entries[i].reference_moiety)[1] \in {"A", "C", "G", "U"}

\* Entry i of doc is the last entry of its short name that names one of the
\* four bases first: the one stored under the short name.
StoredEntry(doc, i) ==
  /\ FirstBaseKnown(doc, i)
  /\ \A j \in (i + 1)..Len(doc.entries) :
       ~(FirstBaseKnown(doc, j) /\ doc.entries[j].short_name = doc.entries[i].short_name)

\* The parent base of every stored entry is its first reference base.
FirstBaseIsParent(doc, d) ==
  \A i \in 1..Len(doc.entries) :
    StoredEntry(doc, i) =>
      LET short_name == Unwrap(doc.entries[i].short_name)
          first == Unwrap(doc.entries[i].reference_moiety)[1]
      IN /\ short_name \in DOMAIN d.modifications
         /\ d.modifications[short_name].parent_base = first
         /\ d.modifications[short_name].genomic_expectation = first

\* C16 as stated in the claim: a catalog in which every entry holds a name, a short
\* name and a list of one or more reference bases is accepted, and the first
\* reference base of an entry is its parent base.
C16_AcceptedWithoutId ==
  (pc \in {"ready", "failed"} /\ (FromFile => catalog.readable) /\ EntriesComplete(Document))
    => /\ pc = "ready"
       /\ db.built
       /\ FirstBaseIsParent(Document, db)

\* C16 amended: a catalog in which every entry holds an id, a name, a
\* short name and a list of one or more reference bases is accepted, and the
\* first reference base of an entry is its parent base.
C16_AcceptedWithId ==
  (/\ pc \in {"ready", "failed"}
   /\ FromFile => catalog.readable
   /\ EntriesComplete(Document)
   /\ EntriesHaveId(Document))
    => /\ pc = "ready"
       /\ db.built
       /\ FirstBaseIsParent(Document, db)

C16_Witness ==
  /\ pc = "ready"
  /\ db # eukaryotic
  /\ EntriesComplete(Document)
  /\ EntriesHaveId(Document)
  /\ \E i \in 1..Len(Document.entries) :
       /\ Document.entries[i].short_name = Some(<<"Q">>)
       /\ Unwrap(Document.entries[i].reference_moiety) = <<"G", "A">>
  /\ db.modifications[<<"Q">>].parent_base = "G"

\* The database was built from an external catalog.
BuiltFromCatalog == pc \notin {"init", "queried", "mapped", "failed"} /\ db # eukaryotic

\* C17: in a database built from an external catalog, an entry whose list of
\* reference bases is absent or empty, or names no known base first, causes
\* no error and leaves no modification; every other entry is imported: the
\* modifications are stored under exactly the short names of the other
\* entries, each with the name and the parent base of the last entry of that
\* short name.
C17_InvalidEntriesDropped ==
  /\ (/\ pc \notin {"init", "queried", "mapped"}
      /\ FromFile => catalog.readable
      /\ MatchesSchema(Document))
       => pc # "failed"
  /\ BuiltFromCatalog =>
       /\ DOMAIN db.modifications =
            {Unwrap(Document.entries[i].short_name) :
               i \in {j \in 1..Len(Document.entries) : FirstBaseKnown(Document, j)}}
       /\ \A i \in 1..Len(Document.entries) :
            StoredEntry(Document, i) =>
              LET m == db.modifications[Unwrap(Document.entries[i].short_name)]
              IN /\ m.name = Unwrap(Document.entries[i].name)
                 /\ m.short_name = Unwrap(Document.entries[i].short_name)
                 /\ m.parent_base = Unwrap(Document.entries[i].reference_moiety)[1]

C17_Witness ==
  /\ pc = "ready"
  /\ BuiltFromCatalog
  /\ \E i, j \in 1..Len(Document.entries) :
       /\ ~FirstBaseKnown(Document, i)
       /\ Document.entries[i].reference_moiety = Some(<<>>)
       /\ Unwrap(Document.entries[i].short_name) \notin DOMAIN db.modifications
       /\ FirstBaseKnown(Document, j)
       /\ Unwrap(Document.entries[j].short_name) \in DOMAIN db.modifications

\* The same for an entry whose first reference base is no known base.
C17_WitnessUnknownBase ==
  /\ pc = "ready"
  /\ BuiltFromCatalog
  /\ \E i, j \in 1..Len(Document.entries) :
       /\ Document.entries[i].reference_moiety = Some(<<"X">>)
       /\ Unwrap(Document.entries[i].short_name) \notin DOMAIN db.modifications
       /\ FirstBaseKnown(Document, j)
       /\ Unwrap(Document.entries[j].short_name) \in DOMAIN db.modifications

\* What a lookup of name in database d is to return: the modification stored
\* under name; failing that, the one stored under the alias target of name;
\* failing that, nothing.
Lookup(d, name) ==
  IF name \in DOMAIN d.modifications THEN Some(d.modifications[name])
  ELSE IF name \in DOMAIN AliasTable /\ AliasTable[name] \in DOMAIN d.modifications
       THEN Some(d.modifications[AliasTable[name]])
  ELSE None

\* C18: every lookup step returns the modification stored under the name,
\* else the one stored under the alias target of the name, else nothing; the
\* alias table of the database is the fixed table whichever way it was
\* built, so in a database built from a catalog with a "Y" entry (and no
\* "Psi" entry) the lookup of "Psi" returns the "Y" entry; the lookup leaves
\* the database as it was.
C18_LookupDirectThenAlias ==
  [][pc' = "looked_up" =>
       /\ db' = db
       /\ db.aliases = AliasTable
       /\ query'.out = Lookup(db, query'.name)
       /\ (/\ db # eukaryotic
           /\ query'.name = <<"P","s","i">>
           /\ <<"Y">> \in DOMAIN db.modifications
           /\ <<"P","s","i">> \notin DOMAIN db.modifications)
            => query'.out = Some(db.modifications[<<"Y">>])]_vars

C18_Witness ==
  /\ pc = "looked_up"
  /\ db # eukaryotic
  /\ query.name = <<"P","s","i">>
  /\ <<"Y">> \in DOMAIN db.modifications
  /\ <<"P","s","i">> \notin DOMAIN db.modifications
  /\ query.out = Some(db.modifications[<<"Y">>])

\* The isotypes the claim gives inosine at position 34.
InosineIsotypes == {"Ala", "Arg", "Ile", "Leu", "Pro", "Ser", "Thr", "Val"}

HasInosine(exps) ==
  \E i \in 1..Len(exps) : \E j \in 1..Len(exps[i].modifications) :
    exps[i].modifications[j].short_name = <<"I">>

\* C19: get_expectations_for_isotype returns the entries of
\* get_expectations whose isotype list is empty or holds the isotype, in the
\* same relative order; in the built-in database the result at position 34
\* holds an inosine expectation exactly for the isotypes Ala, Arg, Ile, Leu,
\* Pro, Ser, Thr and Val.
C19_IsotypeFilter ==
  pc = "expected" =>
    /\ query.out =
         SelectSeq(get_expectations(db, query.position),
                   LAMBDA e : e.isotypes = <<>> \/ query.isotype \in Range(e.isotypes))
    /\ (db = eukaryotic /\ query.position = <<"3","4">>)
         => (HasInosine(query.out) <=> query.isotype \in InosineIsotypes)

C19_Witness ==
  /\ pc = "expected"
  /\ db = eukaryotic
  /\ query.position = <<"3","4">>
  /\ query.isotype = "Val"
  /\ HasInosine(query.out)
  /\ Len(query.out) < Len(get_expectations(db, query.position))

\* C20: the analysis of a hit against a database returns the same score,
\* the same verdict, the same mapping and the same list of incompatibilities
\* in the same order, whatever order the mapped positions are visited in.
C20_Deterministic ==
  pc = "analyzed" =>
    \A ord \in {"fwd", "rev"} :
      LET other == analyze_compatibility(hit, db, ord)
      IN /\ other.compatibility_score = result.compatibility_score
         /\ other.is_odd = result.is_odd
         /\ other.sprinzl_alignment = result.sprinzl_alignment
         /\ other.incompatibilities = result.incompatibilities

\* The number of leading digits of label l.
DigitPrefixLen(l) ==
  CHOOSE k \in 0..Len(l) :
    /\ \A i \in 1..k : l[i] \in Range(Digits)
    /\ k < Len(l) => l[k + 1] \notin Range(Digits)

Letters == Range(LowerCase) \cup Range(UpperCase)

\* l is purely numeric.
IsNumeric(l) == Len(l) > 0 /\ DigitPrefixLen(l) = Len(l)

\* l is a numeric prefix followed by an alphabetic suffix.
IsNumericWithSuffix(l) ==
  /\ DigitPrefixLen(l) > 0
  /\ DigitPrefixLen(l) < Len(l)
  /\ \A i \in (DigitPrefixLen(l) + 1)..Len(l) : l[i] \in Letters

\* l is the letter e followed by digits: a variable-loop label.
IsVariableLoop(l) ==
  /\ Len(l) > 1
  /\ l[1] = "e"
  /\ \A i \in 2..Len(l) : l[i] \in Range(Digits)

\* out is the number written by the leading digits of l.
IsPrefixNumber(l, out) ==
  /\ out # None
  /\ to_string(Unwrap(out)) = SubSeq(l, 1, DigitPrefixLen(l))

\* C21 as stated in the claim: every label of the table is purely numeric or a
\* numeric prefix followed by an alphabetic suffix, base_number returns its
\* leading numeric prefix, and is_insertion is true exactly when the label
\* holds an alphabetic character.
C21_NumericPrefixLabels ==
  (pc = "queried" /\ query.op \in {"base_number", "is_insertion"} /\ query.sprinzl \in Labels) =>
    /\ IsNumeric(query.sprinzl) \/ IsNumericWithSuffix(query.sprinzl)
    /\ query.op = "base_number" => IsPrefixNumber(query.sprinzl, query.out)
    /\ query.op = "is_insertion"
         => (query.out <=> \E i \in 1..Len(query.sprinzl) : query.sprinzl[i] \in Letters)

\* C21 amended: every label of the table is purely numeric, a numeric
\* prefix followed by an alphabetic suffix, or the letter e followed by
\* digits (the variable-loop labels e1..e27); base_number returns the
\* leading numeric prefix of a label of the first two kinds and nothing for
\* a variable-loop label; is_insertion is true exactly when the label holds
\* an alphabetic character.
C21_LabelShapes ==
  (pc = "queried" /\ query.op \in {"base_number", "is_insertion"} /\ query.sprinzl \in Labels) =>
    LET l == query.sprinzl
    IN /\ IsNumeric(l) \/ IsNumericWithSuffix(l) \/ IsVariableLoop(l)
       /\ query.op = "base_number" =>
            /\ (IsNumeric(l) \/ IsNumericWithSuffix(l)) => IsPrefixNumber(l, query.out)
            /\ IsVariableLoop(l) => query.out = None
       /\ query.op = "is_insertion"
            => (query.out <=> \E i \in 1..Len(l) : l[i] \in Letters)

C21_Witness ==
  /\ pc = "queried"
  /\ query.op = "base_number"
  /\ query.sprinzl = <<"e","1","1">>
  /\ query.out = None

C21_WitnessSuffix ==
  /\ pc = "queried"
  /\ query.op = "base_number"
  /\ query.sprinzl = <<"2","0","b">>
  /\ query.out = Some(20)

\* The base the claim gives each character, in either case.
BaseOfChar ==
  [c \in {"A", "a"} |-> "A"] @@ [c \in {"C", "c"} |-> "C"] @@ [c \in {"G", "g"} |-> "G"]
    @@ [c \in {"T", "t", "U", "u"} |-> "U"]

\* The mapped positions of a result whose character is no base character.
NoBasePositions(h, sa) ==
  {l \in DOMAIN sa : sa[l] < Len(h.sequence) /\ h.sequence[sa[l] + 1] \notin DOMAIN BaseOfChar}

\* The mapped positions of a result that hold a base character and have an
\* expectation.
PositionsWithBase(h, d, sa) ==
  {l \in DOMAIN sa :
     /\ sa[l] < Len(h.sequence)
     /\ h.sequence[sa[l] + 1] \in DOMAIN BaseOfChar
     /\ Len(expectations_for(h, d, l)) > 0}

\* C22: from_dna_char maps A, C and G to themselves and T and U to U, in
\* either case, and every other character to no value; the analyzer skips a
\* position whose character has no value: it records no incompatibility
\* there and counts it neither as checked nor as compatible.
C22_FromDnaChar ==
  /\ (pc = "queried" /\ query.op = "from_dna_char") =>
       IF query.c \in DOMAIN BaseOfChar
       THEN query.out = Some(BaseOfChar[query.c])
       ELSE query.out = None
  /\ pc = "analyzed" =>
       LET sa == result.sprinzl_alignment
           counted == PositionsWithBase(hit, db, sa)
       IN /\ \A i \in 1..Len(result.incompatibilities) :
               result.incompatibilities[i].position \notin NoBasePositions(hit, sa)
          /\ result.compatibility_score.den = (IF counted = {} THEN 1 ELSE Cardinality(counted))
          /\ counted # {} =>
               result.compatibility_score.num
                 = Cardinality(CompatibleSet(hit, db, sa) \ NoBasePositions(hit, sa))

C22_Witness ==
  /\ pc = "analyzed"
  /\ PositionsWithBase(hit, db, result.sprinzl_alignment) # {}
  /\ \E l \in NoBasePositions(hit, result.sprinzl_alignment) :
       /\ hit.sequence[result.sprinzl_alignment[l] + 1] = "N"
       /\ Len(expectations_for(hit, db, l)) > 0
  /\ \E l \in PositionsWithBase(hit, db, result.sprinzl_alignment) :
       hit.sequence[result.sprinzl_alignment[l] + 1] \in {"g", "t"}

\* The labels the claim calls critical.
CriticalLabels ==
  {from_num(n) : n \in {34, 35, 36, 37, 16, 17, 20, 54, 55, 58}}
    \cup {<<"2","0","a">>, <<"2","0","b">>}

\* C23: is_critical_position is true exactly for the labels 34, 35, 36, 37,
\* 16, 17, 20, 20a, 20b, 54, 55 and 58, and false for every other label,
\* of the table or not.
C23_CriticalPositions ==
  (pc = "queried" /\ query.op = "is_critical_position")
    => (query.out <=> query.sprinzl \in CriticalLabels)

C23_Witness ==
  /\ pc = "queried"
  /\ query.op = "is_critical_position"
  /\ query.sprinzl = <<"2","0","b">>
  /\ query.out = TRUE

C23_WitnessNot ==
  /\ pc = "queried"
  /\ query.op = "is_critical_position"
  /\ query.sprinzl = <<"1","7","a">>
  /\ query.out = FALSE

\* The alternatives of a list of expectations in walking order: expectation
\* by expectation, and inside each its modifications in order.
RECURSIVE Alternatives(_, _)
Alternatives(exps, i) ==
  IF i > Len(exps) THEN <<>>
  ELSE exps[i].modifications \o Alternatives(exps, i + 1)

\* The place of the first alternative that does not list the observed base
\* as incompatible; one past the end when there is none.
FirstCompatible(alts, observed) ==
  LET ok == {k \in 1..Len(alts) : ~Contains(alts[k].incompatible_bases, observed)}
  IN IF ok = {} THEN Len(alts) + 1 ELSE CHOOSE k \in ok : \A k2 \in ok : k <= k2

\* The incompatibilities recorded for position l, in recording order.
RecordedAt(incs, l) == SelectSeq(incs, LAMBDA inc : inc.position = l)

\* C24: at each checked position the recorded incompatibilities are exactly
\* the alternatives walked before the first compatible one (all of them when
\* none is compatible), in database order, each with the position, the
\* observed base and the alternative's short name; the position counts as
\* compatible exactly when a compatible alternative exists.
C24_WalkStopsAtFirstCompatible ==
  pc = "analyzed" =>
    LET sa == result.sprinzl_alignment
        checked == CheckedSet(hit, db, sa)
        alts(l) == Alternatives(expectations_for(hit, db, l), 1)
        first(l) == FirstCompatible(alts(l), ObservedAt(hit, sa, l))
    IN /\ \A l \in checked :
            LET recorded == RecordedAt(result.incompatibilities, l)
            IN /\ Len(recorded) = first(l) - 1
               /\ \A k \in 1..Len(recorded) :
                    /\ recorded[k].observed_base = ObservedAt(hit, sa, l)
                    /\ recorded[k].expected_mod_name = alts(l)[k].short_name
       /\ checked # {} =>
            result.compatibility_score.num
              = Cardinality({l \in checked : first(l) <= Len(alts(l))})

\* A walk that records two alternatives and stops at the third.
C24_Witness ==
  /\ pc = "analyzed"
  /\ \E l \in CheckedSet(hit, db, result.sprinzl_alignment) :
       LET alts == Alternatives(expectations_for(hit, db, l), 1)
       IN /\ Len(alts) = 3
          /\ FirstCompatible(alts, ObservedAt(hit, result.sprinzl_alignment, l)) = 3
          /\ Len(RecordedAt(result.incompatibilities, l)) = 2

\* A walk that stops at its first alternative with another one behind it.
C24_WitnessFirst ==
  /\ pc = "analyzed"
  /\ \E l \in CheckedSet(hit, db, result.sprinzl_alignment) :
       LET alts == Alternatives(expectations_for(hit, db, l), 1)
       IN /\ Len(alts) >= 2
          /\ FirstCompatible(alts, ObservedAt(hit, result.sprinzl_alignment, l)) = 1
          /\ Contains(alts[2].incompatible_bases, ObservedAt(hit, result.sprinzl_alignment, l))
          /\ RecordedAt(result.incompatibilities, l) = <<>>

\* A walk through every alternative, none of them compatible.
C24_WitnessNone ==
  /\ pc = "analyzed"
  /\ \E l \in CheckedSet(hit, db, result.sprinzl_alignment) :
       LET alts == Alternatives(expectations_for(hit, db, l), 1)
       IN /\ Len(alts) >= 2
          /\ Len(RecordedAt(result.incompatibilities, l)) = Len(alts)

\* The places, in the list the database keeps for position l, of the
\* expectations that apply to hit h: all of them for a hit without isotype,
\* else the ones with no isotype or with the isotype of the hit.
ApplicableAt(h, d, l) ==
  IF l \notin DOMAIN d.position_expectations THEN {}
  ELSE LET list == d.position_expectations[l]
       IN {i \in 1..Len(list) :
             \/ h.isotype = <<>>
             \/ list[i].isotypes = <<>>
             \/ \E k \in 1..Len(list[i].isotypes) : list[i].isotypes[k] = h.isotype[1]}

\* The mapped positions with an index inside the sequence, a base character
\* there, and an applicable expectation.
CheckedPositions(h, d, sa) ==
  {l \in DOMAIN sa :
     /\ sa[l] < Len(h.sequence)
     /\ h.sequence[sa[l] + 1] \in DOMAIN BaseOfChar
     /\ ApplicableAt(h, d, l) # {}}

\* The checked positions where an applicable expectation has an alternative
\* that accepts the base.
AcceptedPositions(h, d, sa) ==
  {l \in CheckedPositions(h, d, sa) :
     LET list == d.position_expectations[l]
         base == BaseOfChar[h.sequence[sa[l] + 1]]
     IN \E i \in ApplicableAt(h, d, l) : \E j \in 1..Len(list[i].modifications) :
          \A k \in 1..Len(list[i].modifications[j].incompatible_bases) :
            list[i].modifications[j].incompatible_bases[k] # base}

\* C25: the denominator of the score counts exactly the mapped positions
\* whose index lies inside the sequence, whose character is a base and for
\* which the database has an expectation applicable to the hit; the
\* numerator counts those of them with an accepting alternative; every
\* incompatibility is recorded at one of them.
C25_CheckedPositions ==
  pc = "analyzed" =>
    LET sa == result.sprinzl_alignment
        checked == CheckedPositions(hit, db, sa)
        accepted == AcceptedPositions(hit, db, sa)
    IN /\ checked # {} =>
            result.compatibility_score
              = [num |-> Cardinality(accepted), den |-> Cardinality(checked)]
       /\ checked = {} =>
            (result.compatibility_score = One /\ result.incompatibilities = <<>>)
       /\ LET recorded == {result.incompatibilities[i].position :
                             i \in 1..Len(result.incompatibilities)}
          IN recorded \subseteq checked /\ (checked \ accepted) \subseteq recorded

\* An analysis with checked positions along with a position past the end of
\* the sequence, a base at a position without any expectation, and a base at
\* a position whose expectations all name other isotypes.
C25_Witness ==
  /\ pc = "analyzed"
  /\ LET sa == result.sprinzl_alignment
     IN /\ CheckedPositions(hit, db, sa) # {}
        /\ \E l \in DOMAIN sa : sa[l] >= Len(hit.sequence)
        /\ \E l \in DOMAIN sa :
             /\ sa[l] < Len(hit.sequence)
             /\ hit.sequence[sa[l] + 1] \in DOMAIN BaseOfChar
             /\ l \notin DOMAIN db.position_expectations
        /\ \E l \in DOMAIN sa :
             /\ sa[l] < Len(hit.sequence)
             /\ hit.sequence[sa[l] + 1] \in DOMAIN BaseOfChar
             /\ l \in DOMAIN db.position_expectations
             /\ ApplicableAt(hit, db, l) = {}

\* The isotype strings some expectation of database d lists.
NamedIsotypes(d) ==
  UNION {UNION {Range(d.position_expectations[l][i].isotypes) :
                  i \in 1..Len(d.position_expectations[l])} :
           l \in DOMAIN d.position_expectations}

\* The expectations of list at the places in I, in list order.
RECURSIVE SubList(_, _, _)
SubList(list, I, i) ==
  IF i > Len(list) THEN <<>>
  ELSE (IF i \in I THEN <<list[i]>> ELSE <<>>) \o SubList(list, I, i + 1)

\* The short names recorded against h at position l when nothing accepts its
\* base: those of the alternatives of the expectations at the places in I.
NamesOf(d, l, I) ==
  LET alts == Alternatives(SubList(d.position_expectations[l], I, 1), 1)
  IN [k \in 1..Len(alts) |-> alts[k].short_name]

\* C26: a hit without isotype is checked against every expectation of a
\* position, whatever its isotype set; a hit with an isotype only against
\* the expectations whose isotype set is empty or holds exactly that string;
\* a hit whose isotype no expectation names is checked against the
\* expectations with an empty isotype set only.
C26_IsotypeSelection ==
  pc = "analyzed" =>
    LET sa == result.sprinzl_alignment
        all(l) == 1..Len(db.position_expectations[l])
        unrestricted(l) == {i \in all(l) : db.position_expectations[l][i].isotypes = <<>>}
        own(l) == {i \in all(l) :
                     hit.isotype[1] \in Range(db.position_expectations[l][i].isotypes)}
        with_base == {l \in DOMAIN sa \cap DOMAIN db.position_expectations :
                        /\ sa[l] < Len(hit.sequence)
                        /\ hit.sequence[sa[l] + 1] \in DOMAIN BaseOfChar}
        used(l) == IF hit.isotype = <<>> THEN all(l)
                   ELSE IF hit.isotype[1] \in NamedIsotypes(db)
                        THEN unrestricted(l) \cup own(l)
                        ELSE unrestricted(l)
        names(l) == LET r == RecordedAt(result.incompatibilities, l)
                    IN [k \in 1..Len(r) |-> r[k].expected_mod_name]
    IN \A l \in with_base :
         /\ used(l) = {} => names(l) = <<>>
         /\ \E n \in 0..Len(NamesOf(db, l, used(l))) :
              names(l) = SubSeq(NamesOf(db, l, used(l)), 1, n)
         /\ l \notin AcceptedPositions(hit, db, sa) => names(l) = NamesOf(db, l, used(l))

\* A hit whose isotype no expectation names, with a base at a position
\* holding isotype-specific expectations only, and an incompatibility
\* recorded from an expectation with an empty isotype set.
C26_Witness ==
  /\ pc = "analyzed"
  /\ hit.isotype = Some(GLY)
  /\ GLY \notin NamedIsotypes(db)
  /\ \E l \in DOMAIN result.sprinzl_alignment \cap DOMAIN db.position_expectations :
       /\ \A i \in 1..Len(db.position_expectations[l]) :
            db.position_expectations[l][i].isotypes # <<>>
       /\ RecordedAt(result.incompatibilities, l) = <<>>
  /\ result.incompatibilities # <<>>

\* A hit without isotype with records from expectations of two different
\* isotype sets at one position.
C26_WitnessNoIsotype ==
  /\ pc = "analyzed"
  /\ hit.isotype = None
  /\ \E l \in DOMAIN db.position_expectations :
       /\ Len(RecordedAt(result.incompatibilities, l)) >= 2
       /\ db.position_expectations[l][1].isotypes # db.position_expectations[l][2].isotypes

\* A hit with a listed isotype with a record from the expectation listing
\* it, at a position where another expectation lists other isotypes.
C26_WitnessListed ==
  /\ pc = "analyzed"
  /\ hit.isotype = Some(ALA)
  /\ \E l \in DOMAIN db.position_expectations :
       /\ Len(db.position_expectations[l]) >= 2
       /\ Len(RecordedAt(result.incompatibilities, l)) = 1
       /\ ~Contains(db.position_expectations[l][2].isotypes, ALA)

\* The columns of the table under string st that hold a residue character.
ResidueColumns(st) ==
  {c \in 0..(Min(N, Len(st)) - 1) : IsResidueChar(st[c + 1])}

\* C27: the mapping of a result is the alignment mapping of the structure
\* when the structure is not empty: the label of every residue column of
\* the table, with the number of residues to its left; else the positional
\* mapping: the label of column i with index i, for every i below the
\* length of the sequence and of the table.  A structure with a residue
\* character among the columns of the table gives a mapping that is not
\* empty.
C27_MappingChoice ==
  pc = "analyzed" =>
    LET sa == result.sprinzl_alignment
        st == hit.structure
    IN /\ st # <<>> =>
            /\ DOMAIN sa = {positions[c + 1] : c \in ResidueColumns(st)}
            /\ \A c \in ResidueColumns(st) : sa[positions[c + 1]] = ResiduesBefore(st, c)
       /\ st = <<>> =>
            /\ DOMAIN sa = {positions[i + 1] : i \in 0..(Min(N, Len(hit.sequence)) - 1)}
            /\ \A i \in 0..(Min(N, Len(hit.sequence)) - 1) : sa[positions[i + 1]] = i
       /\ (st # <<>> /\ ResidueColumns(st) # {}) => DOMAIN sa # {}

\* A structure of gaps over a sequence the positional mapping would map: the
\* mapping is empty.
C27_Witness ==
  /\ pc = "analyzed"
  /\ hit.structure # <<>>
  /\ ResidueColumns(hit.structure) = {}
  /\ Len(hit.sequence) > 0
  /\ DOMAIN result.sprinzl_alignment = {}

\* A structure with gaps whose mapping differs from the positional one.
C27_WitnessStructure ==
  /\ pc = "analyzed"
  /\ Len(hit.structure) > N
  /\ Len(hit.sequence) = 77
  /\ \E l \in DOMAIN result.sprinzl_alignment :
       /\ result.sprinzl_alignment[l] >= Len(hit.sequence)
       /\ positions[result.sprinzl_alignment[l] + 1] # l

\* The positional mapping of a sequence longer than the table.
C27_WitnessFallback ==
  /\ pc = "analyzed"
  /\ hit.structure = <<>>
  /\ Len(hit.sequence) > N
  /\ Cardinality(DOMAIN result.sprinzl_alignment) = N

\* The expectations database d keeps for position l.
ExpectationsAt(d, l) ==
  IF l \in DOMAIN d.position_expectations THEN d.position_expectations[l] ELSE <<>>

\* The position, conservation level, functional role and isotype set of
\* each expectation of a list.
Projected(list) ==
  [i \in 1..Len(list) |->
     [position |-> list[i].position, conservation |-> list[i].conservation,
      functional_role |-> list[i].functional_role, isotypes |-> list[i].isotypes]]

\* The rows of the expectation table that name position l, in table order.
RECURSIVE RowsAt(_, _)
RowsAt(l, r) ==
  IF r > Len(EukaryoticExpectations) THEN <<>>
  ELSE (IF \E k \in 1..Len(EukaryoticExpectations[r].nums) :
             from_num(EukaryoticExpectations[r].nums[k]) = l
        THEN <<r>> ELSE <<>>) \o RowsAt(l, r + 1)

\* Database d resolves a modification name of table row r, directly or
\* through an alias.
RowResolves(d, r) ==
  \E k \in 1..Len(EukaryoticExpectations[r].names) :
    Lookup(d, EukaryoticExpectations[r].names[k]) # None

\* C28: the built-in database has one expectation per table row and
\* position; a database built from a catalog has, at every position, the
\* expectations of the built-in database for the rows whose modification
\* the catalog resolves, with the same position, conservation level,
\* functional role and isotype set, in the same order, and none for the
\* other rows; the construction succeeds whichever rows resolve.
C28_SameExpectationTable ==
  BuiltFromCatalog =>
    /\ db.built
    /\ DOMAIN db.position_expectations \subseteq DOMAIN eukaryotic.position_expectations
    /\ \A l \in DOMAIN eukaryotic.position_expectations :
         LET builtin == eukaryotic.position_expectations[l]
             rows == RowsAt(l, 1)
         IN /\ Len(builtin) = Len(rows)
            /\ Projected(ExpectationsAt(db, l))
                 = Projected(SubList(builtin, {i \in 1..Len(rows) : RowResolves(db, rows[i])}, 1))

\* A catalog resolving both rows of label 34 and no row of label 55.
C28_Witness ==
  /\ BuiltFromCatalog
  /\ pc = "ready"
  /\ Len(ExpectationsAt(db, <<"3","4">>)) = 2
  /\ Projected(ExpectationsAt(db, <<"3","4">>))
       = Projected(eukaryotic.position_expectations[<<"3","4">>])
  /\ ExpectationsAt(db, <<"5","5">>) = <<>>
  /\ ExpectationsAt(db, <<"1","6">>) = <<>>

\* A catalog resolving the row of label 55 through the alias of Psi.
C28_WitnessAlias ==
  /\ BuiltFromCatalog
  /\ <<"P","s","i">> \notin DOMAIN db.modifications
  /\ Len(ExpectationsAt(db, <<"5","5">>)) = 1
  /\ ExpectationsAt(db, <<"5","5">>)[1].modifications[1].short_name = <<"Y">>

\* The score of result r lies strictly below a threshold that is a multiple
\* of 2^-12.
BelowThreshold(r, threshold) ==
  r.compatibility_score.num * 4096 < threshold.h * r.compatibility_score.den

\* C29: detect_odd_trnas returns the analysis results of the hits whose
\* score lies strictly below the threshold, in the order of the hits; with
\* the threshold 1.0 these are the results whose is_odd is true.
C29_DetectOddTrnas ==
  (pc = "detected" /\ query.op = "detect_odd_trnas") =>
    LET results == [i \in 1..Len(hits) |-> analyze_compatibility(hits[i], db, orders[i])]
        kept == {i \in 1..Len(hits) : BelowThreshold(results[i], query.threshold)}
    IN /\ query.threshold.m = 0 /\ query.threshold.l = 0
       /\ query.out = SubList(results, kept, 1)
       /\ query.threshold = F64One =>
            /\ kept = {i \in 1..Len(hits) : results[i].is_odd}
            /\ \A k \in 1..Len(query.out) : query.out[k].is_odd

\* A detection at threshold 1.0 that drops the first of three hits and keeps
\* the other two, one of them with a score between 0 and 1.
C29_Witness ==
  /\ pc = "detected"
  /\ query.op = "detect_odd_trnas"
  /\ query.threshold = F64One
  /\ Len(hits) = 3
  /\ Len(query.out) = 2
  /\ query.out[1].hit = hits[2]
  /\ query.out[2].hit = hits[3]
  /\ query.out[1].compatibility_score.num = 0
  /\ query.out[2].compatibility_score.num > 0

\* A detection at threshold 0.25 dropping a result that is odd.
C29_WitnessHalf ==
  /\ pc = "detected"
  /\ query.op = "detect_odd_trnas"
  /\ query.threshold = f64_div(F64One, 4)
  /\ \E i \in 1..Len(hits) :
       LET r == analyze_compatibility(hits[i], db, orders[i])
       IN r.is_odd /\ \A k \in 1..Len(query.out) : query.out[k] # r

\* C30: a database built by either construction holds no Rare expectation
\* and no expectation without a modification; no incompatibility recorded
\* against it is Minor, and is_odd is true exactly when the score is below
\* 1.0.
C30_OddIffScoreBelowOne ==
  pc = "analyzed" =>
    /\ \A l \in DOMAIN db.position_expectations :
         \A i \in 1..Len(db.position_expectations[l]) :
           /\ db.position_expectations[l][i].conservation # "Rare"
           /\ Len(db.position_expectations[l][i].modifications) >= 1
    /\ \A i \in 1..Len(result.incompatibilities) :
         result.incompatibilities[i].severity \in {"Critical", "Major"}
    /\ result.is_odd
         <=> result.compatibility_score.num < result.compatibility_score.den

\* A result against a catalog database that lists an incompatibility at a
\* position a later alternative accepts, scores 1.0 and is not odd.
C30_Witness ==
  /\ pc = "analyzed"
  /\ BuiltFromCatalog
  /\ result.compatibility_score.num = result.compatibility_score.den
  /\ ~result.is_odd
  /\ \E l \in AcceptedPositions(hit, db, result.sprinzl_alignment) :
       /\ RecordedAt(result.incompatibilities, l) # <<>>
       /\ RecordedAt(result.incompatibilities, l)[1].severity = "Major"

\* The same against the built-in database, for a hit without isotype.
C30_WitnessBuiltIn ==
  /\ pc = "analyzed"
  /\ db = eukaryotic
  /\ result.compatibility_score.num = result.compatibility_score.den
  /\ ~result.is_odd
  /\ \E l \in AcceptedPositions(hit, db, result.sprinzl_alignment) :
       /\ hit.isotype = None
       /\ Len(RecordedAt(result.incompatibilities, l)) = 1
       /\ Len(db.position_expectations[l]) = 2

\* An odd result.
C30_WitnessOdd ==
  /\ pc = "analyzed"
  /\ result.is_odd
  /\ result.compatibility_score.num > 0

====
